---- MODULE Spec2Model ----
(***************************************************************************)
(* sorg: a static site generator that turns one org-mode document into a   *)
(* tree of pages.  This module models the page-tree builder                *)
(* (Page::parse_index, src/src/page.rs), the helpers it calls, and the     *)
(* recursive renderer (Page::render, in src/src/render.rs and in           *)
(* src/src/page.rs).                                                       *)
(*                                                                         *)
(* Strings are TLA+ strings; format!("{path}/{slug}") is  path \o "/" \o   *)
(* slug.  A heading is a record                                            *)
(*     [raw, tags, keyword, props, children]                               *)
(* (orgize's Title plus the child headlines); a Headline handle is the     *)
(* heading's position in the document: the sequence of child indices that  *)
(* leads from the first top-level heading to it.                           *)
(***************************************************************************)
EXTENDS Naturals, Sequences, FiniteSets, TLC

VARIABLES
    doc,      \* the first top-level heading of the parsed document (Org)
    release,  \* main.rs: release = (args.mode == SorgMode::Run)
    pc,       \* position of run(): "parsed", "built", "rendered"
    tree,     \* the Page returned by parse_index (NoPage before it ran)
    fs,       \* the writes done, in order: [file, name, by, items] (path, file
              \* name, the Page's headline, the items of a feed)
    returned, \* the calls of Page::render that returned: <<headline, "Ok" | "Err">>
    renderer, \* which Page::render ran: "render.rs", "page.rs" ("none" before)
    result,   \* what Page::render of the root returned: "none", "Ok", "Err"
    preamble, \* the #+KEYWORD lines before the first heading: a set of keys
    vfs,      \* the file system outside the render: [dirs, files]
    args,     \* the arguments of the function under study (<<>> when none)
    ret,      \* what that function returned (<<>> before it is called)
    watch     \* watch mode: the watcher thread, the reload channel and the
              \* reload-listener connections

vars == <<doc, release, pc, tree, fs, returned, renderer, result,
          preamble, vfs, args, ret, watch>>

----------------------------------------------------------------------------
(* Bounds of the model *)

\* the documents explored have at most this many headings
MaxHeadings == 3

\* at most this many operations of one render fail
MaxFaults == 1

\* the heading whose context is built has at most this many properties
MaxProperties == 2

\* a macro is declared with at most this many parameters
MaxParams == 2

\* the argument text of a macro call has at most this many characters
MaxArgChars == 3

\* generate_folders is run at most this many times on one file system
MaxRuns == 2

\* at most this many reload-listener connections are requested
MaxClients == 2

\* the watcher handles at most this many change events
MaxCycles == 2

----------------------------------------------------------------------------
(* Values *)

None == "<none>"        \* Option::None (never a property value or keyword)
NoPage == [kind |-> "NoPage"]

\* todos(): the (not-done, done) workflow keywords
todos == << <<"TODO", "PROGRESS", "WAITING", "MAYBE", "CANCELLED">>,
            <<"DONE", "READ">> >>

Range(s) == {s[i] : i \in 1..Len(s)}

\* slugmin::slugify on the titles the model uses: lowercase, runs of
\* non-alphanumerics become one hyphen
slugify(t) ==
    CASE t = "Index" -> "index"
      [] t = "index" -> "index"
      [] t = "A" -> "a"
      [] t = "a" -> "a"
      [] t = "B" -> "b"
      [] t = "b" -> "b"
      [] t = "First Child" -> "first-child"
      [] t = "My Post" -> "my-post"
      [] OTHER -> t

\* str::to_lowercase on the property and keyword keys the model uses
to_lowercase(k) ==
    CASE k = "SLUG" -> "slug"
      [] k = "TITLE" -> "title"
      [] k = "FILE" -> "file"
      [] k = "DESCRIPTION" -> "description"
      [] k = "CAPTION" -> "caption"
      [] k = "ATTR_HTML" -> "attr_html"
      [] OTHER -> k

----------------------------------------------------------------------------
(* helpers.rs: parse_file_link *)

\* The value of a `file` property is modelled by what orgize parses it to:
\* [empty, lead, link], where empty says the text is empty, lead that inline
\* text precedes the first link, and link is the path of the first link in
\* chunks (a scheme prefix such as "file:" is one chunk; <<>>: no link).
FileText(lead, link) == [empty |-> FALSE, lead |-> lead, link |-> link]

\* Org::parse(link).iter(): the first events of the text
OrgEvents(text) ==
    <<[ev |-> "Document"]>>
    \o (IF text.empty THEN <<>> ELSE
        <<[ev |-> "Section"], [ev |-> "Paragraph"]>>
        \o (IF text.lead THEN <<[ev |-> "Text"]>> ELSE <<>>)
        \o (IF text.link = <<>> THEN <<>>
            ELSE <<[ev |-> "Link", path |-> text.link]>>))

RECURSIVE Concat(_)
Concat(chunks) ==
    IF chunks = <<>> THEN "" ELSE Head(chunks) \o Concat(Tail(chunks))

\* mutant of strip_prefix_file: a path without the prefix is taken whole
strip_prefix_file_or_whole(path) ==
    IF path # <<>> /\ Head(path) = "file:" THEN Concat(Tail(path))
    ELSE Concat(path)

\* link.path.strip_prefix("file:") on a path given in chunks
strip_prefix_file(path) ==
    IF path # <<>> /\ Head(path) = "file:" THEN Concat(Tail(path)) ELSE None

parse_file_link(link) ==
    LET it == OrgEvents(link)
    IN  IF /\ Len(it) >= 4
           /\ it[1].ev = "Document"
           /\ it[2].ev = "Section"
           /\ it[3].ev = "Paragraph"
           /\ it[4].ev = "Link"
        THEN strip_prefix_file(it[4].path)
        ELSE None

----------------------------------------------------------------------------
(* page.rs: get_property, get_slug *)

\* the first property whose lowercased name is prop
get_property(h, prop) ==
    LET hits == {i \in 1..Len(h.props) : to_lowercase(h.props[i][1]) = prop}
    IN  IF hits = {} THEN None
        ELSE h.props[CHOOSE i \in hits : \A j \in hits : i <= j][2]

\* title.properties.iter().find(|(k, _)| k == "file"): an exact match on the
\* name; <<>> for Option::None, <<value>> for Some
file_prop(h) ==
    LET hits == {i \in 1..Len(h.props) : h.props[i][1] = "file"}
    IN  IF hits = {} THEN <<>>
        ELSE <<h.props[CHOOSE i \in hits : \A j \in hits : i <= j][2]>>

title_string(h) ==
    IF get_property(h, "title") # None THEN get_property(h, "title") ELSE h.raw

get_slug(h, title) ==
    IF get_property(h, "slug") # None THEN get_property(h, "slug")
    ELSE slugify(title)

----------------------------------------------------------------------------
(* page.rs: Page::parse_index *)

\* mutant of collect: the first page inserted under a slug is kept
collect_first_wins(pages) ==
    [s \in {pages[i].slug : i \in 1..Len(pages)} |->
        pages[CHOOSE i \in 1..Len(pages) :
                /\ pages[i].slug = s
                /\ \A j \in 1..Len(pages) : pages[j].slug = s => i <= j]]

\* .map(|p| (p.slug.clone(), p)).collect::<HashMap<_, _>>(): the pages are
\* inserted in order, a later page replaces an earlier one with its slug
collect(pages) ==
    [s \in {pages[i].slug : i \in 1..Len(pages)} |->
        pages[CHOOSE i \in 1..Len(pages) :
                /\ pages[i].slug = s
                /\ \A j \in 1..Len(pages) : pages[j].slug = s => j <= i]]

RECURSIVE SelectDefined(_)
SelectDefined(s) ==
    IF s = <<>> THEN <<>>
    ELSE IF Head(s) = NoPage THEN SelectDefined(Tail(s))
    ELSE <<Head(s)>> \o SelectDefined(Tail(s))

\* mutant of accumulate_path: the slug "index" is appended like any other
accumulate_path_always(path, slug) == path \o "/" \o slug

\* if slug != "index" { path = format!("{path}/{}", slug); }
accumulate_path(path, slug) ==
    IF slug # "index" THEN path \o "/" \o slug ELSE path

\* if path.is_empty() { path = "/".to_string(); }
normalize_path(path) == IF path = "" THEN "/" ELSE path

\* mutant of has_noexport: the tag is looked up under another name
has_noexport_misspelt(c) == "no_export" \in c.tags

\* title.tags.contains("noexport")
has_noexport(c) == "noexport" \in c.tags

\* mutant of is_post: the parent's `posts` tag is not consulted
is_post_own_tag_only(c, parent_is_posts) == "post" \in c.tags

\* title.tags.contains("post") || parent_is_posts
is_post(c, parent_is_posts) == "post" \in c.tags \/ parent_is_posts

\* if let Some(kw) = &title.keyword { if keywords.0.contains(kw) {..} }
keyword_skipped(c, keywords) ==
    c.keyword # None /\ c.keyword \in Range(keywords[1])

\* mutant of enumerate_order: the count starts at 1
enumerate_order_from_one(i) == i

\* .enumerate(): the order handed to the closure for the i-th child
\* (i counts from 1 in the model, enumerate() from 0)
enumerate_order(i) == i - 1

\* the PageEnum of a post: OrgFile when the `file` property is a file link
leaf_variant(c) ==
    IF file_prop(c) # <<>> /\ parse_file_link(file_prop(c)[1]) # None
    THEN [kind |-> "OrgFile", path |-> parse_file_link(file_prop(c)[1])]
    ELSE [kind |-> "Post"]

\* Some(Page { page: PageEnum::Post | OrgFile, path: format!("{path}/{slug}"), .. })
LeafPage(c, pos, path, order) ==
    [headline |-> pos,
     page |-> leaf_variant(c),
     path |-> path \o "/" \o get_slug(c, title_string(c)),
     slug |-> get_slug(c, title_string(c)),
     title |-> title_string(c),
     description |-> get_property(c, "description"),
     order |-> order]

RECURSIVE parse_index(_, _, _, _, _)
parse_index(h, pos, keywords, path0, order) ==
    LET slug == get_slug(h, title_string(h))
        path == accumulate_path(path0, slug)
        parent_is_posts == "posts" \in h.tags
        \* the closure of filter_map, applied to the i-th child
        child(i) ==
            LET c == h.children[i]
                cpos == Append(pos, i)
            IN  IF has_noexport(c) THEN NoPage
                ELSE IF is_post(c, parent_is_posts)
                THEN IF keyword_skipped(c, keywords) THEN NoPage
                     ELSE LeafPage(c, cpos, path, enumerate_order(i))
                ELSE parse_index(c, cpos, keywords, path, enumerate_order(i))
        children ==
            collect(SelectDefined([i \in 1..Len(h.children) |-> child(i)]))
    IN  [headline |-> pos,
         page |-> [kind |-> "Index", children |-> children],
         slug |-> slug,
         path |-> normalize_path(path),
         title |-> title_string(h),
         description |-> get_property(h, "description"),
         order |-> order]

----------------------------------------------------------------------------
(* The documents explored *)

Heading(raw, tags, keyword, props) ==
    [raw |-> raw, tags |-> tags, keyword |-> keyword, props |-> props,
     children |-> <<>>]

\* headings that differ in tags, workflow keyword, title and slug
HeadingPool ==
    {Heading("A", t, None, <<>>) :
        t \in {{}, {"noexport"}, {"post"}, {"posts"}}}
    \cup {Heading("B", t, k, <<>>) :
        t \in {{}, {"post"}}, k \in {"TODO", "PROGRESS"}}
    \cup {Heading("Index", t, None, <<>>) : t \in {{}, {"post"}}}
    \cup {Heading("B", {}, None, <<>>),
          Heading("First Child", {}, "DONE", <<<<"slug", "a">>>>)}

RECURSIVE TreesOfSize(_, _), ForestsOfSize(_, _)
TreesOfSize(pool, n) ==
    {[a EXCEPT !.children = f] : a \in pool, f \in ForestsOfSize(pool, n - 1)}
ForestsOfSize(pool, n) ==
    IF n = 0 THEN {<<>>}
    ELSE UNION {{<<t>> \o f : t \in TreesOfSize(pool, k),
                             f \in ForestsOfSize(pool, n - k)} : k \in 1..n}

Docs(pool) == UNION {TreesOfSize(pool, n) : n \in 1..MaxHeadings}

----------------------------------------------------------------------------
(* main.rs: run *)

\* the keywords run() and Config::new require
RequiredKeywords == {"title", "description", "url"}

\* a file system with no directory and no file
EmptyFs == [dirs |-> {}, files |-> <<>>]

\* the state of what a run of the site build does not use
\* the program is not in watch mode
NoWatch == [watcher |-> "none"]

NoCall ==
    /\ preamble = RequiredKeywords /\ vfs = EmptyFs /\ args = <<>> /\ ret = <<>>
    /\ watch = NoWatch

TypeOK ==
    /\ release \in BOOLEAN
    /\ pc \in {"start", "failed", "parsed", "built", "cleaned", "rendered",
              "call", "returned", "watch"}
    /\ result \in {"none", "Ok", "Err"}
    /\ renderer \in {"none", "render.rs", "page.rs"}
    /\ (pc \in {"rendered", "failed"}) = (result # "none")

Init ==
    /\ doc \in Docs(HeadingPool)
    /\ release \in BOOLEAN
    /\ pc = "parsed"
    /\ tree = NoPage
    /\ fs = <<>>
    /\ returned = {}
    /\ renderer = "none"
    /\ result = "none"
    /\ NoCall

\* let tree = Page::parse_index(&org, first, &todos(), "".to_string(), 0, ..)
Build ==
    /\ pc = "parsed"
    /\ tree' = parse_index(doc, <<>>, todos, "", 0)
    /\ pc' = "built"
    /\ UNCHANGED <<doc, release, fs, returned, renderer, result,
                   watch, preamble, vfs, args, ret>>

Next == Build

Spec == Init /\ [][Next]_vars

\* the values of `file` properties explored:
\*   [[file:test.org][linked blogpost]]   [[https://example.org][site]]
\*   test.org (plain text, or a link left open)   see [[file:test.org]]
\*   [[test.org]]   [[notes/file:test.org]]   and the empty text
FileTexts ==
    {FileText(FALSE, <<"file:", "test.org">>),
     FileText(FALSE, <<"https:", "//example.org">>),
     FileText(TRUE, <<>>),
     FileText(TRUE, <<"file:", "test.org">>),
     FileText(FALSE, <<"test.org">>),
     FileText(FALSE, <<"notes/", "file:", "test.org">>),
     [empty |-> TRUE, lead |-> FALSE, link |-> <<>>]}

\* headings that differ in their `file` property
FileHeadingPool ==
    {Heading("A", {"post"}, None, <<<<"file", t>>>>) : t \in FileTexts}
    \cup {Heading("B", {"posts"}, None, <<>>)}
    \cup {Heading("B", {}, None,
                  <<<<"file", FileText(FALSE, <<"file:", "test.org">>)>>>>),
          Heading("B", {"post"}, None,
                  <<<<"FILE", FileText(FALSE, <<"file:", "test.org">>)>>>>)}

InitFile ==
    /\ doc \in Docs(FileHeadingPool)
    /\ release \in BOOLEAN
    /\ pc = "parsed"
    /\ tree = NoPage
    /\ fs = <<>>
    /\ returned = {}
    /\ renderer = "none"
    /\ result = "none"
    /\ NoCall

SpecFile == InitFile /\ [][Next]_vars

----------------------------------------------------------------------------
(* Reading a document and a page tree *)

RECURSIVE PositionsOf(_, _)
PositionsOf(h, pos) ==
    {pos} \cup UNION {PositionsOf(h.children[i], Append(pos, i)) :
                        i \in 1..Len(h.children)}

Positions == PositionsOf(doc, <<>>)

RECURSIVE HeadingAt(_, _)
HeadingAt(h, pos) ==
    IF pos = <<>> THEN h ELSE HeadingAt(h.children[Head(pos)], Tail(pos))

Parent(pos) == SubSeq(pos, 1, Len(pos) - 1)

IsIndex(p) == p.page.kind = "Index"

ChildPages(p) ==
    IF IsIndex(p) THEN {p.page.children[s] : s \in DOMAIN p.page.children}
    ELSE {}

RECURSIVE PagesOf(_)
PagesOf(p) == {p} \cup UNION {PagesOf(c) : c \in ChildPages(p)}

\* every Page of the built tree
Pages == IF tree = NoPage THEN {} ELSE PagesOf(tree)

HasPage(pos) == \E p \in Pages : p.headline = pos

SlugAt(pos) == get_slug(HeadingAt(doc, pos), title_string(HeadingAt(doc, pos)))

NotDone == Range(todos[1])

\* the closure of parse_index returns Some for the heading at pos (a child):
\* it is neither tagged noexport nor a post with a not-done keyword
Survives(pos) ==
    LET c == HeadingAt(doc, pos)
    IN  /\ "noexport" \notin c.tags
        /\ ~ (/\ ("post" \in c.tags \/ "posts" \in HeadingAt(doc, Parent(pos)).tags)
              /\ c.keyword \in NotDone)

----------------------------------------------------------------------------
(* render.rs and page.rs: Page::render *)

\* The operations of the render of one Page that can fail: building the
\* context, render_template (tera.render, create_dir_all, create_file,
\* write_all) and the write of rss.xml.  A fault names the Page and the stage.
Stages == {"context", "template", "rss"}

FaultPoints(root) ==
    {[pos |-> p.headline, stage |-> st] : p \in PagesOf(root), st \in Stages}

FaultSets(root) ==
    {f \in SUBSET FaultPoints(root) : Cardinality(f) <= MaxFaults}

\* the build directory handed to the root's render
BuildPath == "build"

\* let out_path = if slug == "index" { out } else { out.join(slug) }
out_path_of(p, out) == IF p.slug = "index" THEN out ELSE out \o "/" \o p.slug

\* rss.rs: generate_rss pushes one item per element of `children`, in the
\* order of the Vec it is given: title and link ({url}{page.path}) of the child
generate_rss(children) ==
    [k \in 1..Len(children) |->
        [title |-> children[k].title, link |-> children[k].path]]

\* the record of one write: out_path.join(name).create_file() and the write
\* of the content, by the render of p; items are the items of a feed
Written(out_path, name, p, items) ==
    [file |-> out_path \o "/" \o name, name |-> name, by |-> p.headline,
     items |-> items]

\* what one call of Page::render did: its result, the writes it and the
\* renders below it made, in order, and the calls that returned
Outcome(ok, files, calls) == [ok |-> ok, fs |-> files, calls |-> calls]

\* what the iteration over children.values() did: the Vec collected so far
Collected(ok, files, calls, children) ==
    [ok |-> ok, fs |-> files, calls |-> calls, children |-> children]

Returned(p, ok) == <<p.headline, IF ok THEN "Ok" ELSE "Err">>

\* render.rs: Page::render.  The set of outcomes, one for every order in
\* which children.values() may iterate the HashMap.
\*   children.values().map(|child| child.render(..)).collect::<Result<Vec<_>>>()?
\* stops at the first child that returns Err and returns that error.
RECURSIVE render(_, _, _), render_children(_, _, _)
render(p, out, faults) ==
    LET out_path == out_path_of(p, out)
        failed(st) == [pos |-> p.headline, stage |-> st] \in faults
        index_html == Written(out_path, "index.html", p, <<>>)
        rss_xml(children) ==
            Written(out_path, "rss.xml", p, generate_rss(children))
    IN  IF failed("context") \/ failed("template")
        THEN {Outcome(FALSE, <<>>, {Returned(p, FALSE)})}
        ELSE IF ~ IsIndex(p)
        THEN {Outcome(TRUE, <<index_html>>, {Returned(p, TRUE)})}
        ELSE {IF ~ o.ok
              THEN Outcome(FALSE, <<index_html>> \o o.fs,
                           o.calls \cup {Returned(p, FALSE)})
              ELSE IF failed("rss")
              THEN Outcome(FALSE, <<index_html>> \o o.fs,
                           o.calls \cup {Returned(p, FALSE)})
              ELSE Outcome(TRUE,
                           <<index_html>> \o o.fs \o <<rss_xml(o.children)>>,
                           o.calls \cup {Returned(p, TRUE)})
              : o \in render_children(ChildPages(p), out_path, faults)}

render_children(remaining, out_path, faults) ==
    IF remaining = {} THEN {Collected(TRUE, <<>>, {}, <<>>)}
    ELSE UNION {UNION {IF ~ o.ok THEN {Collected(FALSE, o.fs, o.calls, <<>>)}
                       ELSE {Collected(r.ok, o.fs \o r.fs, o.calls \cup r.calls,
                                       <<c>> \o r.children) :
                               r \in render_children(remaining \ {c}, out_path, faults)}
                       : o \in render(c, out_path, faults)}
                : c \in remaining}

\* page.rs: Page::render.  Only get_org_file_context can fail while the
\* context is built.
\*   children.values().flat_map(|child| -> Result<_> { .. }).collect::<Vec<_>>()
\* iterates every child, in the order of the HashMap; a Result that is Err
\* yields no element.
RECURSIVE render_page_rs(_, _, _), children_page_rs(_, _, _)
render_page_rs(p, out, faults) ==
    LET out_path == out_path_of(p, out)
        failed(st) == [pos |-> p.headline, stage |-> st] \in faults
        index_html == Written(out_path, "index.html", p, <<>>)
        rss_xml(children) ==
            Written(out_path, "rss.xml", p, generate_rss(children))
    IN  IF (p.page.kind = "OrgFile" /\ failed("context")) \/ failed("template")
        THEN {Outcome(FALSE, <<>>, {Returned(p, FALSE)})}
        ELSE IF ~ IsIndex(p)
        THEN {Outcome(TRUE, <<index_html>>, {Returned(p, TRUE)})}
        ELSE {IF failed("rss")
              THEN Outcome(FALSE, <<index_html>> \o k.fs,
                           k.calls \cup {Returned(p, FALSE)})
              ELSE Outcome(TRUE,
                           <<index_html>> \o k.fs \o <<rss_xml(k.children)>>,
                           k.calls \cup {Returned(p, TRUE)})
              : k \in children_page_rs(ChildPages(p), out_path, faults)}

children_page_rs(remaining, out_path, faults) ==
    IF remaining = {} THEN {Collected(TRUE, <<>>, {}, <<>>)}
    ELSE UNION {UNION {{Collected(TRUE, o.fs \o r.fs, o.calls \cup r.calls,
                                  (IF o.ok THEN <<c>> ELSE <<>>) \o r.children) :
                               r \in children_page_rs(remaining \ {c}, out_path, faults)}
                       : o \in render_page_rs(c, out_path, faults)}
                : c \in remaining}

\* tree.render(&tera, build_path.clone(), &config, &org, ..)? of run(), with
\* Page::render of render.rs, taken when run() is at `at`
TreeRender(at) ==
    /\ pc = at
    /\ \E faults \in FaultSets(tree) :
          \E o \in render(tree, BuildPath, faults) :
              /\ fs' = o.fs
              /\ returned' = o.calls
              /\ result' = IF o.ok THEN "Ok" ELSE "Err"
    /\ renderer' = "render.rs"
    /\ pc' = "rendered"
    /\ UNCHANGED <<doc, release, tree, watch, preamble, vfs, args, ret>>

Render == TreeRender("built")

\* the same call, with Page::render of page.rs
RenderPageRs ==
    /\ pc = "built"
    /\ \E faults \in FaultSets(tree) :
          \E o \in render_page_rs(tree, BuildPath, faults) :
              /\ fs' = o.fs
              /\ returned' = o.calls
              /\ result' = IF o.ok THEN "Ok" ELSE "Err"
    /\ renderer' = "page.rs"
    /\ pc' = "rendered"
    /\ UNCHANGED <<doc, release, tree, watch, preamble, vfs, args, ret>>

\* the files of the build directory: create_file() truncates, so a file holds
\* what the last write to its path wrote
Disk ==
    LET files == {fs[i].file : i \in 1..Len(fs)}
        last(f) == CHOOSE i \in 1..Len(fs) :
                      /\ fs[i].file = f
                      /\ \A j \in (i + 1)..Len(fs) : fs[j].file # f
    IN  [f \in files |-> fs[last(f)]]

NextRender == Build \/ Render \/ RenderPageRs

\* headings that become an Index, a Post or an OrgFile
RenderHeadingPool ==
    {Heading("A", {}, None, <<>>),
     Heading("Index", {}, None, <<>>),
     Heading("B", {"post"}, None, <<>>),
     Heading("A", {"post"}, None,
             <<<<"file", FileText(FALSE, <<"file:", "test.org">>)>>>>)}

InitRender ==
    /\ doc \in Docs(RenderHeadingPool)
    /\ release \in BOOLEAN
    /\ pc = "parsed"
    /\ tree = NoPage
    /\ fs = <<>>
    /\ returned = {}
    /\ renderer = "none"
    /\ result = "none"
    /\ NoCall

SpecRender == InitRender /\ [][NextRender]_vars

----------------------------------------------------------------------------
(* tera.rs and template.rs: get_template *)

\* the state of a specification that studies one function: no document is
\* built or rendered
NoBuild ==
    /\ doc = Heading("Index", {}, None, <<>>)
    /\ release = FALSE
    /\ tree = NoPage
    /\ fs = <<>>
    /\ returned = {}
    /\ renderer = "none"
    /\ result = "none"
    /\ preamble = RequiredKeywords
    /\ vfs = EmptyFs

NoRun == NoBuild /\ watch = NoWatch

\* HashMap::get(key) on the properties of a heading, collected from its
\* (name, value) pairs: an exact match on the name; <<>> for None
properties_get(properties, key) ==
    LET hits == {i \in 1..Len(properties) : properties[i][1] = key}
    IN  IF hits = {} THEN <<>>
        ELSE <<properties[CHOOSE i \in hits : \A j \in hits : j <= i][2]>>

\* what can follow the leading "/" of a page path
PathTails == {"", "a", "b", "a/b", "index", "first-child"}

\* path.trim_start_matches('/'): every leading "/" is removed
RECURSIVE trim_start_matches(_)
trim_start_matches(path) ==
    IF \E t \in PathTails : "/" \o t = path
    THEN trim_start_matches(CHOOSE t \in PathTails : "/" \o t = path)
    ELSE path

\* mutant of get_template: a loaded {path}.html is preferred to the property
get_template_path_first(names, name, path, index) ==
    LET p == IF path = "/" THEN "index" ELSE trim_start_matches(path)
    IN  IF (p \o ".html") \in names THEN p \o ".html"
        ELSE IF name # <<>> THEN name[1]
        ELSE IF index THEN "default_index.html"
        ELSE "default.html"

\* tera.rs: get_template(tera, name, path, index); names are
\* tera.get_template_names()
get_template(names, name, path, index) ==
    LET p == IF path = "/" THEN "index" ELSE trim_start_matches(path)
    IN  IF name # <<>> THEN name[1]
        ELSE IF (p \o ".html") \in names THEN p \o ".html"
        ELSE IF index THEN "default_index.html"
        ELSE "default.html"

\* template.rs: get_template(tera, properties, path, index) looks the
\* property up itself
get_template_properties(names, properties, path, index) ==
    LET p == IF path = "/" THEN "index" ELSE trim_start_matches(path)
    IN  IF properties_get(properties, "template") # <<>>
        THEN properties_get(properties, "template")[1]
        ELSE IF (p \o ".html") \in names THEN p \o ".html"
        ELSE IF index THEN "default_index.html"
        ELSE "default.html"

\* the templates loaded by Tera::new("templates/*.html")
TemplateNames == {"index.html", "a.html", "a/b.html", "post.html"}

\* the properties of the page's heading
TemplateProperties ==
    {<<>>,
     <<<<"template", "post.html">>>>,
     <<<<"slug", "a">>, <<"template", "a.html">>>>,
     <<<<"description", "post.html">>>>}

TemplateCalls ==
    [tera : SUBSET TemplateNames, properties : TemplateProperties,
     path : {"/", "/a", "/a/b", "/index"}, index : BOOLEAN]

InitTemplate ==
    /\ NoRun
    /\ pc = "call"
    /\ args \in TemplateCalls
    /\ ret = <<>>

\* render.rs: Page::render calls get_template of tera.rs with
\* self.info.properties.get("template")
GetTemplate ==
    /\ pc = "call"
    /\ ret' = [by |-> "tera.rs",
               template |-> get_template(args.tera,
                                         properties_get(args.properties, "template"),
                                         args.path, args.index)]
    /\ pc' = "returned"
    /\ UNCHANGED <<doc, release, tree, fs, returned, renderer, result,
                   watch, preamble, vfs, args>>

\* page.rs: Page::render calls get_template of template.rs with the
\* properties
GetTemplateProperties ==
    /\ pc = "call"
    /\ ret' = [by |-> "template.rs",
               template |-> get_template_properties(args.tera, args.properties,
                                                    args.path, args.index)]
    /\ pc' = "returned"
    /\ UNCHANGED <<doc, release, tree, fs, returned, renderer, result,
                   watch, preamble, vfs, args>>

NextTemplate == GetTemplate \/ GetTemplateProperties

SpecTemplate == InitTemplate /\ [][NextTemplate]_vars

----------------------------------------------------------------------------
(* context.rs: get_index_context, get_post_context, get_org_file_context *)

\* a value of the context: one the builder computed for the key, or the
\* value of a property of the heading
Computed(key) == [src |-> "computed", value |-> key]
Property(value) == [src |-> "property", value |-> value]

\* mutant of insert: a key that is already in the context keeps its value
insert_if_absent(context, key, value) ==
    [k \in DOMAIN context \cup {key} |->
        IF k \in DOMAIN context THEN context[k] ELSE value]

\* tera::Context::insert: the value replaces the one the key had
insert(context, key, value) ==
    [k \in DOMAIN context \cup {key} |-> IF k = key THEN value ELSE context[k]]

\* context.insert(key, &computed) for each key, in order
RECURSIVE insert_computed(_, _)
insert_computed(context, keys) ==
    IF keys = <<>> THEN context
    ELSE insert_computed(insert(context, keys[1], Computed(keys[1])), Tail(keys))

\* for (k, v) in headline.title(org).properties.iter() { context.insert(k.clone(), v) }
RECURSIVE insert_properties(_, _)
insert_properties(context, properties) ==
    IF properties = <<>> THEN context
    ELSE insert_properties(
             insert(context, properties[1][1], Property(properties[1][2])),
             Tail(properties))

get_index_context(properties) ==
    insert_properties(
        insert_computed(<<>>, <<"title", "content", "pages", "word_count",
                                "reading_time">>),
        properties)

get_post_context(properties) ==
    insert_properties(
        insert_computed(<<>>, <<"title", "date", "word_count", "reading_time",
                                "footnotes", "content", "sections">>),
        properties)

\* File::open(file)? returns the error before anything else is inserted
get_org_file_context(properties, file_exists) ==
    IF ~ file_exists THEN [ok |-> FALSE, context |-> <<>>]
    ELSE [ok |-> TRUE,
          context |-> insert_properties(
              insert_computed(<<>>, <<"title", "content", "sections",
                                      "word_count", "reading_time">>),
              properties)]

\* the names and values of the properties explored
PropertyNames ==
    {"title", "content", "pages", "sections", "word_count", "reading_time",
     "footnotes", "date", "slug", "TITLE"}

PropertyLists(n) ==
    UNION {[1..k -> {<<name, v>> : name \in PropertyNames, v \in {"x", "y"}}] :
             k \in 0..n}

ContextCalls ==
    [kind : {"Index", "Post", "OrgFile"},
     properties : PropertyLists(MaxProperties),
     file_exists : BOOLEAN]

InitContext ==
    /\ NoRun
    /\ pc = "call"
    /\ args \in ContextCalls
    /\ args.kind # "OrgFile" => args.file_exists
    /\ ret = <<>>

GetIndexContext ==
    /\ pc = "call"
    /\ args.kind = "Index"
    /\ ret' = [ok |-> TRUE, context |-> get_index_context(args.properties)]
    /\ pc' = "returned"
    /\ UNCHANGED <<doc, release, tree, fs, returned, renderer, result,
                   watch, preamble, vfs, args>>

GetPostContext ==
    /\ pc = "call"
    /\ args.kind = "Post"
    /\ ret' = [ok |-> TRUE, context |-> get_post_context(args.properties)]
    /\ pc' = "returned"
    /\ UNCHANGED <<doc, release, tree, fs, returned, renderer, result,
                   watch, preamble, vfs, args>>

GetOrgFileContext ==
    /\ pc = "call"
    /\ args.kind = "OrgFile"
    /\ ret' = get_org_file_context(args.properties, args.file_exists)
    /\ pc' = "returned"
    /\ UNCHANGED <<doc, release, tree, fs, returned, renderer, result,
                   watch, preamble, vfs, args>>

NextContext == GetIndexContext \/ GetPostContext \/ GetOrgFileContext

SpecContext == InitContext /\ [][NextContext]_vars

----------------------------------------------------------------------------
(* count_words.rs and context.rs: count_words_index *)

\* A heading of the element tree: the number of words of the Text of its
\* title and of the Text of its section (0: no section), `skip` more stars
\* than one level below its parent, and its child headings.
OrgHeading(title, section, skip) ==
    [title |-> title, section |-> section, skip |-> skip, children |-> <<>>]

Event(edge, el, level, words) ==
    [edge |-> edge, el |-> el, level |-> level, words |-> words]

\* headline.headline_node().traverse(org.arena()): Start and End of every
\* node of the subtree, in document order
RECURSIVE traverse(_, _), traverse_all(_, _)
traverse(h, level) ==
    <<Event("Start", "Headline", level, 0),
      Event("Start", "Title", level, 0),
      Event("Start", "Text", level, h.title),
      Event("End", "Text", level, h.title),
      Event("End", "Title", level, 0)>>
    \o (IF h.section = 0 THEN <<>>
        ELSE <<Event("Start", "Section", level, 0),
               Event("Start", "Paragraph", level, 0),
               Event("Start", "Text", level, h.section),
               Event("End", "Text", level, h.section),
               Event("End", "Paragraph", level, 0),
               Event("End", "Section", level, 0)>>)
    \o traverse_all(h.children, level)
    \o <<Event("End", "Headline", level, 0)>>

traverse_all(hs, level) ==
    IF hs = <<>> THEN <<>>
    ELSE traverse(hs[1], level + 1 + hs[1].skip) \o traverse_all(Tail(hs), level)

\* one turn of the loop of count_words_index over an event; st is
\* [v, in_subheadline, in_headline, in_page_title], level is headline.level()
count_event(st, ev, level) ==
    IF ev.edge = "Start" /\ ~ st.in_headline
    THEN IF ev.el = "Headline" /\ ev.level > level + 1
         THEN [st EXCEPT !.in_headline = TRUE]
         ELSE IF ev.el = "Headline" /\ ev.level > level
         THEN [st EXCEPT !.in_subheadline = TRUE]
         ELSE IF ev.el = "Title"
         THEN [st EXCEPT !.in_page_title = TRUE]
         ELSE IF ~ st.in_subheadline \/ st.in_page_title
         THEN [st EXCEPT !.v = @ + (IF ev.el = "Text" THEN ev.words ELSE 0)]
         ELSE st
    ELSE IF ev.edge = "End"
    THEN IF ev.el = "Headline" /\ ev.level > level + 1
         THEN [st EXCEPT !.in_headline = FALSE]
         ELSE IF ev.el = "Headline" /\ ev.level > level
         THEN [st EXCEPT !.in_subheadline = FALSE]
         ELSE IF ev.el = "Title"
         THEN [st EXCEPT !.in_page_title = FALSE]
         ELSE st
    ELSE st

RECURSIVE count_events(_, _, _)
count_events(st, events, level) ==
    IF events = <<>> THEN st
    ELSE count_events(count_event(st, events[1], level), Tail(events), level)

count_words_index(headline, level) ==
    count_events([v |-> 0, in_subheadline |-> FALSE, in_headline |-> FALSE,
                  in_page_title |-> FALSE],
                 traverse(headline, level), level).v

\* headings that differ in the words of their title and section and in
\* their level
OrgHeadingPool ==
    {OrgHeading(t, s, k) : t \in {1, 2}, s \in {0, 4}, k \in {0, 1}}

InitWords ==
    /\ NoRun
    /\ pc = "call"
    /\ args \in Docs(OrgHeadingPool)
    /\ ret = <<>>

\* let word_count = count_words_index(headline, org) of get_index_context
CountWordsIndex ==
    /\ pc = "call"
    /\ ret' = count_words_index(args, 1 + args.skip)
    /\ pc' = "returned"
    /\ UNCHANGED <<doc, release, tree, fs, returned, renderer, result,
                   watch, preamble, vfs, args>>

NextWords == CountWordsIndex

SpecWords == InitWords /\ [][NextWords]_vars

----------------------------------------------------------------------------
(* macros.rs: MacroProcessor::process; render.rs: CommonHtmlHandler::start *)

\* A text is the sequence of its characters.
\* arguments.split(','): the pieces between the commas; the empty text has
\* one piece, the empty one
RECURSIVE split(_)
split(text) ==
    IF text = <<>> THEN << <<>> >>
    ELSE IF Head(text) = "," THEN << <<>> >> \o split(Tail(text))
    ELSE LET rest == split(Tail(text))
         IN  << <<Head(text)>> \o rest[1] >> \o Tail(rest)

\* arg.trim(): the white space at both ends is removed
RECURSIVE trim_start(_), trim_end(_)
trim_start(text) ==
    IF text # <<>> /\ Head(text) = " " THEN trim_start(Tail(text)) ELSE text
trim_end(text) ==
    IF text # <<>> /\ text[Len(text)] = " "
    THEN trim_end(SubSeq(text, 1, Len(text) - 1)) ELSE text
trim(text) == trim_end(trim_start(text))

\* arguments.len() != self.definition.arguments.len()
argument_count_mismatch(arguments, parameters) ==
    Len(arguments) # Len(parameters)

\* MacroProcessor::process(arguments): an error, or the body rendered with
\* each parameter bound to the argument at its position (zip); the content
\* is the values the body `{{ arg1 }} {{ arg2 }} ..` expands to
process(definition, text) ==
    LET arguments == [i \in 1..Len(split(text)) |-> trim(split(text)[i])]
        both == 1..Len(definition.arguments)
        context == [name \in Range(definition.arguments) |->
                       arguments[CHOOSE i \in both :
                                     definition.arguments[i] = name]]
    IN  IF argument_count_mismatch(arguments, definition.arguments)
        THEN [ok |-> FALSE, context |-> <<>>, content |-> <<>>]
        ELSE [ok |-> TRUE, context |-> context,
              content |-> [i \in both |-> context[definition.arguments[i]]]]

\* the macro `test` declared with n parameters
Macro(n) ==
    [label |-> "test",
     arguments |-> SubSeq(<<"arg1", "arg2", "arg3">>, 1, n)]

Texts(n) == UNION {[1..k -> {",", " ", "x", "y"}] : k \in 0..n}

\* a call {{{name(arguments)}}}: arguments is <<>> for None (no argument
\* text) and <<text>> for Some
MacroCalls ==
    [definition : {Macro(n) : n \in 0..MaxParams},
     name : {"test", "other"},
     arguments : {<<>>} \cup {<<t>> : t \in Texts(MaxArgChars)}]

InitMacro ==
    /\ NoRun
    /\ pc = "call"
    /\ args \in MacroCalls
    /\ ret = <<>>

\* Element::Macros(call) in CommonHtmlHandler::start: nothing is written
\* for a name that is no macro;
\*   let args = call.arguments.as_deref().unwrap_or_default();
\*   let out = macro_processor.process(args)?;
StartMacros ==
    /\ pc = "call"
    /\ ret' = IF args.name # args.definition.label
              THEN [ok |-> TRUE, context |-> <<>>, content |-> <<>>]
              ELSE process(args.definition,
                           IF args.arguments = <<>> THEN <<>>
                           ELSE args.arguments[1])
    /\ pc' = "returned"
    /\ UNCHANGED <<doc, release, tree, fs, returned, renderer, result,
                   watch, preamble, vfs, args>>

NextMacro == StartMacros

SpecMacro == InitMacro /\ [][NextMacro]_vars

----------------------------------------------------------------------------
(* folders.rs: generate_folders *)

\* A VfsPath is the sequence of the names below the root it was joined
\* from; vfs.dirs are the directories and vfs.files the content of the files.

\* mutant of folder_path: the slug "index" is joined like any other
folder_path_joins_index(path, slug) == Append(path, slug)

\* let path = if page.info.slug == "index" { path } else { path.join(slug)? }
folder_path(path, slug) == IF slug = "index" THEN path ELSE Append(path, slug)

\* path.create_dir_all(): the directory and every missing ancestor
create_dir_all(v, path) ==
    [v EXCEPT !.dirs = @ \cup {SubSeq(path, 1, k) : k \in 0..Len(path)}]

\* gitignore.create_file(): a new, empty file (an existing one is truncated)
create_file(v, file) ==
    [v EXCEPT !.files = [f \in DOMAIN v.files \cup {file} |->
                            IF f = file THEN "" ELSE v.files[f]]]

\* mutant of write_gitignore: the file is created whether it exists or not
write_gitignore_always(v, path, generate_gitignore) ==
    IF generate_gitignore THEN create_file(v, Append(path, ".gitignore")) ELSE v

\* if generate_gitignore { if !gitignore.exists()? { gitignore.create_file()? } }
write_gitignore(v, path, generate_gitignore) ==
    IF generate_gitignore /\ Append(path, ".gitignore") \notin DOMAIN v.files
    THEN create_file(v, Append(path, ".gitignore"))
    ELSE v

\* generate_folder_for_page: the file systems it can leave, one for every
\* order in which children.values() may iterate
RECURSIVE generate_folder_for_page(_, _, _, _), generate_folders_below(_, _, _, _)
generate_folder_for_page(v, path0, page, generate_gitignore) ==
    LET path == folder_path(path0, page.slug)
        here == write_gitignore(create_dir_all(v, path), path, generate_gitignore)
    IN  IF IsIndex(page)
        THEN generate_folders_below(here, path, ChildPages(page), generate_gitignore)
        ELSE {here}

generate_folders_below(v, path, remaining, generate_gitignore) ==
    IF remaining = {} THEN {v}
    ELSE UNION {UNION {generate_folders_below(w, path, remaining \ {c},
                                              generate_gitignore)
                       : w \in generate_folder_for_page(v, path, c, generate_gitignore)}
                : c \in remaining}

\* headings that become directories, share a directory or are left out
FolderHeadingPool ==
    {Heading("A", {}, None, <<>>),
     Heading("B", {}, None, <<>>),
     Heading("Index", {}, None, <<>>),
     Heading("A", {"noexport"}, None, <<>>),
     Heading("B", {"post"}, "TODO", <<>>)}

\* the static directory before the first run: the directories of these
\* paths exist and hold a .gitignore that was written by hand
FolderFileSystems ==
    {[dirs |-> {<<>>} \cup UNION {{SubSeq(d, 1, k) : k \in 0..Len(d)} : d \in ds},
      files |-> [f \in {Append(d, ".gitignore") : d \in ds} |-> "hiii :3"]]
        : ds \in SUBSET {<<>>, <<"a">>, <<"a", "b">>}}

InitFolders ==
    /\ doc \in Docs(FolderHeadingPool)
    /\ release = FALSE
    /\ pc = "parsed"
    /\ tree = NoPage
    /\ fs = <<>>
    /\ returned = {}
    /\ renderer = "none"
    /\ result = "none"
    /\ preamble = RequiredKeywords
    /\ vfs \in FolderFileSystems
    /\ watch = NoWatch
    /\ args \in [generate_gitignore : BOOLEAN, vfs : {vfs}]
    /\ ret = 0

\* generate_folders(static_path, org, generate_gitignore) of SorgMode::Folders;
\* ret counts the runs
GenerateFolders ==
    /\ ret < MaxRuns
    /\ tree' = parse_index(doc, <<>>, todos, "", 0)
    /\ vfs' \in generate_folder_for_page(vfs, <<>>, tree', args.generate_gitignore)
    /\ ret' = ret + 1
    /\ pc' = "built"
    /\ UNCHANGED <<doc, release, fs, returned, renderer, result, watch, preamble, args>>

NextFolders == GenerateFolders

SpecFolders == InitFolders /\ [][NextFolders]_vars

----------------------------------------------------------------------------
(* main.rs: run; config.rs: Config::new *)

\* .context("Keyword '{key}' was not provided")
not_provided(key) == "Keyword '" \o key \o "' was not provided"

\* mutant of url_required: the url keyword is required in every mode
url_required_always(is_release) == TRUE

\* let url = if release { keywords.get("url").context(..)? } else { "http://localhost:1024" }
url_required(is_release) == is_release

\* the first `?` of run() that returns: url, title, description
run_keywords(keywords, is_release) ==
    IF url_required(is_release) /\ "url" \notin keywords THEN not_provided("url")
    ELSE IF "title" \notin keywords THEN not_provided("title")
    ELSE IF "description" \notin keywords THEN not_provided("description")
    ELSE None

\* the first `?` of Config::new that returns: title, description, url
config_new(keywords, is_release) ==
    IF "title" \notin keywords THEN not_provided("title")
    ELSE IF "description" \notin keywords THEN not_provided("description")
    ELSE IF url_required(is_release) /\ "url" \notin keywords
    THEN not_provided("url")
    ELSE None

\* std::fs::remove_dir_all(path): the directory and all that is below it
remove_dir_all(v, path) ==
    LET below(f) == Len(f) >= Len(path) /\ SubSeq(f, 1, Len(path)) = path
    IN  [dirs |-> {d \in v.dirs : ~ below(d)},
         files |-> [f \in {g \in DOMAIN v.files : ~ below(g)} |-> v.files[f]]]

\* the site directory before the build: with or without the output of an
\* earlier build
RunFileSystems ==
    {[dirs |-> {<<>>}, files |-> <<>>],
     [dirs |-> {<<>>, <<"build">>},
      files |-> [f \in {<<"build", "index.html">>} |-> "old"]]}

\* headings of a small site
RunHeadingPool ==
    {Heading("Index", {}, None, <<>>), Heading("B", {"post"}, None, <<>>)}

InitRun ==
    /\ doc \in Docs(RunHeadingPool)
    /\ release \in BOOLEAN
    /\ preamble \in SUBSET RequiredKeywords
    /\ vfs \in RunFileSystems
    /\ watch = NoWatch
    /\ args = [vfs |-> vfs]
    /\ ret = <<>>
    /\ pc = "start"
    /\ tree = NoPage
    /\ fs = <<>>
    /\ returned = {}
    /\ renderer = "none"
    /\ result = "none"

\* what the keyword checks leave: the error returned by `?`, or the Config
Checked(by, error) ==
    /\ ret' = [by |-> by, error |-> error]
    /\ IF error = None
       THEN pc' = "parsed" /\ result' = result
       ELSE pc' = "failed" /\ result' = "Err"
    /\ UNCHANGED <<doc, release, tree, fs, returned, renderer, watch, preamble, vfs, args>>

\* main.rs: the keyword checks of run()
RunKeywords ==
    /\ pc = "start"
    /\ Checked("main.rs", run_keywords(preamble, release))

\* config.rs: Config::new
ConfigNew ==
    /\ pc = "start"
    /\ Checked("config.rs", config_new(preamble, release))

\* if build_path.exists() { std::fs::remove_dir_all(&build_path) }
RemoveBuildDir ==
    /\ pc = "built"
    /\ vfs' = IF <<"build">> \in vfs.dirs THEN remove_dir_all(vfs, <<"build">>)
              ELSE vfs
    /\ pc' = "cleaned"
    /\ UNCHANGED <<doc, release, tree, fs, returned, renderer, result,
                   watch, preamble, args, ret>>

\* tree.render(..)? of run(), after the build directory was removed
RunRender == TreeRender("cleaned")

NextRun == RunKeywords \/ ConfigNew \/ Build \/ RemoveBuildDir \/ RunRender

SpecRun == InitRun /\ [][NextRun]_vars

----------------------------------------------------------------------------
(* main.rs: watch mode; hotreloading.rs: init_websockets *)

\* What can go wrong in one build cycle: reading the file, a missing
\* keyword, the export of a page's content (a macro call with the wrong
\* argument count, a base URL or link that does not parse), the template.
CycleFaults == {"none", "read", "keyword", "export", "template"}

\* CommonHtmlHandler::start returns the error with `?`
handler_start(fault) == IF fault = "export" THEN "Err" ELSE "Ok"

\* write_html: handler.start(..).expect("failed to write to html") panics
\* on an Err of the handler
write_html(handled) == IF handled = "Err" THEN "Panic" ELSE "Ok"

\* run(): the keyword checks, then tree.render: page_context (write_html)
\* before render_template
run_cycle(fault) ==
    IF fault = "keyword" THEN "Err"
    ELSE IF write_html(handler_start(fault)) = "Panic" THEN "Panic"
    ELSE IF fault = "template" THEN "Err"
    ELSE "Ok"

\* fn cycle: read_to_string(path)?; parse; run(..)?
cycle(fault) == IF fault = "read" THEN "Err" ELSE run_cycle(fault)

Clients == 1..MaxClients

\* a connection request that was not handled yet
NoClient == [state |-> "none", accepted_at |-> 0, owed |-> FALSE, got |-> 0]

\* after main() rendered once and called init_websockets and new_debouncer:
\* watch.chan holds, for each () in the channel, the number of the rebuild
\* that sent it
InitWatch ==
    /\ NoBuild
    /\ pc = "watch"
    /\ args = <<>>
    /\ ret = <<>>
    /\ watch = [watcher |-> "running", rebuilds |-> 0, reported |-> 0,
                last |-> "none", chan |-> <<>>,
                clients |-> [c \in Clients |-> NoClient]]

RestUnchanged ==
    UNCHANGED <<doc, release, pc, tree, fs, returned, renderer, result,
                preamble, vfs, args, ret>>

\* the thread of a connection: request.use_protocol("sorg").accept(); it
\* then blocks in rx.recv().  accepted_at is the number of rebuilds done.
Accept(c) ==
    /\ watch.watcher # "none"
    /\ watch.clients[c].state = "none"
    /\ watch' = [watch EXCEPT !.clients[c] =
                    [NoClient EXCEPT !.state = "waiting",
                                     !.accepted_at = watch.rebuilds]]
    /\ RestUnchanged

\* a request without the protocol "sorg": request.reject()
Reject(c) ==
    /\ watch.watcher # "none"
    /\ watch.clients[c].state = "none"
    /\ watch' = [watch EXCEPT !.clients[c].state = "rejected"]
    /\ RestUnchanged

\* rx.recv() takes one () out of the channel (each message goes to one
\* receiver); the thread then sends "reload" and ends
Recv(c) ==
    /\ watch.clients[c].state = "waiting"
    /\ watch.chan # <<>>
    /\ watch' = [watch EXCEPT !.chan = Tail(@),
                              !.clients[c].state = "reloaded",
                              !.clients[c].got = Head(watch.chan)]
    /\ RestUnchanged

\* the closure of new_debouncer on Ok(_event): an Err of cycle is printed, an
\* Ok sends one () into the channel, a panic ends the watcher's thread.
\* owed marks the connections that are open when the rebuild succeeds.
Cycle ==
    /\ watch.watcher = "running"
    /\ watch.rebuilds + watch.reported < MaxCycles
    /\ \E fault \in CycleFaults :
          LET outcome == cycle(fault)
          IN  watch' =
                IF outcome = "Panic"
                THEN [watch EXCEPT !.watcher = "dead", !.last = "Panic"]
                ELSE IF outcome = "Err"
                THEN [watch EXCEPT !.reported = @ + 1, !.last = "Err"]
                ELSE [watch EXCEPT
                        !.rebuilds = @ + 1,
                        !.last = "Ok",
                        !.chan = Append(@, watch.rebuilds + 1),
                        !.clients = [c \in Clients |->
                            IF watch.clients[c].state = "waiting"
                            THEN [watch.clients[c] EXCEPT !.owed = TRUE]
                            ELSE watch.clients[c]]]
    /\ RestUnchanged

NextWatch == (\E c \in Clients : Accept(c) \/ Reject(c) \/ Recv(c)) \/ Cycle

SpecWatch == InitWatch /\ [][NextWatch]_vars

\* a thread that can leave rx.recv() does so
SpecWatchFair == SpecWatch /\ \A c \in Clients : WF_vars(Recv(c))

----------------------------------------------------------------------------
(* page.rs: get_slug, on headings with a `slug` property *)

\* headings whose slug comes from the title and from a `slug` property
SlugHeadingPool ==
    {Heading("Index", {}, None, <<>>),
     Heading("My Post", {"post"}, None, <<>>),
     Heading("First Child", {}, None, <<>>),
     Heading("A", {}, None, <<<<"slug", "My Post">>>>),
     Heading("B", {"post"}, None, <<<<"SLUG", "first-child">>>>)}

InitSlug ==
    /\ doc \in Docs(SlugHeadingPool)
    /\ release \in BOOLEAN
    /\ pc = "parsed"
    /\ tree = NoPage
    /\ fs = <<>>
    /\ returned = {}
    /\ renderer = "none"
    /\ result = "none"
    /\ NoCall

SpecSlug == InitSlug /\ [][Next]_vars

----------------------------------------------------------------------------
(* render.rs: write_html with IndexHtmlHandler *)

\* mutant of index_passes: elements inside deeper headings are handed on
index_passes_in_headline(st) == ~ st.in_page_title

\* _ if !self.in_page_title && !self.in_headline => self.handler.start / end
index_passes(st) == ~ st.in_page_title /\ ~ st.in_headline

\* IndexHtmlHandler::start and ::end on an event; st is
\* [in_headline, in_page_title, n, calls], n the number of events seen,
\* calls the positions of the events handed to the inner handler, and level
\* is self.level
index_event(st, ev, level) ==
    LET seen == [st EXCEPT !.n = @ + 1]
    IN  IF ev.el = "Headline" /\ ev.level > level
        THEN [seen EXCEPT !.in_headline = (ev.edge = "Start")]
        ELSE IF ev.el = "Title"
        THEN [seen EXCEPT !.in_page_title = (ev.edge = "Start")]
        ELSE IF index_passes(st)
        THEN [seen EXCEPT !.calls = Append(@, seen.n)]
        ELSE seen

\* the loop of write_html over the events
RECURSIVE index_events(_, _, _)
index_events(st, events, level) ==
    IF st.n = Len(events) THEN st
    ELSE index_events(index_event(st, events[st.n + 1], level), events, level)

\* write_html(headline, org, IndexHtmlHandler { level: headline.level(), .. })
write_html_index(headline, level) ==
    index_events([in_headline |-> FALSE, in_page_title |-> FALSE, n |-> 0,
                  calls |-> <<>>],
                 traverse(headline, level), level).calls

\* let html = write_html(..) of get_index_context
ExportIndex ==
    /\ pc = "call"
    /\ ret' = [calls |-> write_html_index(args, 1 + args.skip)]
    /\ pc' = "returned"
    /\ UNCHANGED <<doc, release, tree, fs, returned, renderer, result,
                   watch, preamble, vfs, args>>

NextIndexHtml == ExportIndex

SpecIndexHtml == InitWords /\ [][NextIndexHtml]_vars

----------------------------------------------------------------------------
(* render.rs: write_html with PostHtmlHandler, footnotes.rs *)

\* an orgize Element; path is a link's path as <<stem, extension>>, value a
\* keyword's value as its space-separated tokens, definition an Option
El(el) ==
    [el |-> el, level |-> 0, label |-> "", definition |-> <<>>,
     key |-> "", value |-> <<>>, path |-> <<>>]

TextEl == El("Text")
FnRefEl(label, definition) ==
    [El("FnRef") EXCEPT !.label = label, !.definition = definition]
FnDefEl(label) == [El("FnDef") EXCEPT !.label = label]
KeywordEl(key, value) == [El("Keyword") EXCEPT !.key = key, !.value = value]
LinkEl(path) == [El("Link") EXCEPT !.path = path]
LevelEl(el, level) == [El(el) EXCEPT !.level = level]

\* a block of a section with its inline children
Block(el, inline) == [el |-> el, inline |-> inline]

\* a heading of a post: the inline elements of its title, the blocks of its
\* section, the levels it skips below its parent
PostHeading(title, section, skip) ==
    [title |-> title, section |-> section, skip |-> skip, children |-> <<>>]

Edge(edge, element) == [edge |-> edge, element |-> element]

RECURSIVE inline_events(_)
inline_events(inline) ==
    IF inline = <<>> THEN <<>>
    ELSE <<Edge("Start", inline[1]), Edge("End", inline[1])>>
         \o inline_events(Tail(inline))

RECURSIVE block_events(_)
block_events(blocks) ==
    IF blocks = <<>> THEN <<>>
    ELSE <<Edge("Start", blocks[1].el)>> \o inline_events(blocks[1].inline)
         \o <<Edge("End", blocks[1].el)>> \o block_events(Tail(blocks))

\* headline.headline_node().traverse(org.arena()) of a post
RECURSIVE post_traverse(_, _), post_traverse_all(_, _)
post_traverse(h, level) ==
    <<Edge("Start", LevelEl("Headline", level)),
      Edge("Start", LevelEl("Title", level))>>
    \o inline_events(h.title)
    \o <<Edge("End", LevelEl("Title", level))>>
    \o (IF h.section = <<>> THEN <<>>
        ELSE <<Edge("Start", El("Section"))>> \o block_events(h.section)
             \o <<Edge("End", El("Section"))>>)
    \o post_traverse_all(h.children, level)
    \o <<Edge("End", LevelEl("Headline", level))>>
post_traverse_all(hs, level) ==
    IF hs = <<>> THEN <<>>
    ELSE post_traverse(hs[1], level + 1 + hs[1].skip)
         \o post_traverse_all(Tail(hs), level)

\* a HashMap<String, String> with no entry
NoAttributes == [k \in {} |-> <<>>]

\* what a handler writes: the tag, the N of an <hN>, the label of a footnote
\* reference, the attributes rendered into the tag, the element written
Out(tag, edge, n, label, attributes, element) ==
    [tag |-> tag, edge |-> edge, n |-> n, label |-> label,
     attributes |-> attributes, of |-> element]

\* mutant of fnref_label: every reference advances the counter
fnref_label_counts_all(footnote_id, label) ==
    [footnote_id |-> footnote_id + 1,
     label |-> IF label = "" THEN ToString(footnote_id + 1) ELSE label]

\* let label = if label.is_empty() { self.footnote_id += 1; .. } else { label }
fnref_label(footnote_id, label) ==
    IF label = ""
    THEN [footnote_id |-> footnote_id + 1, label |-> ToString(footnote_id + 1)]
    ELSE [footnote_id |-> footnote_id, label |-> label]

RECURSIVE trim_colons(_)
trim_colons(value) ==
    IF value # <<>> /\ value[1] = ":" THEN trim_colons(Tail(value)) ELSE value

\* the Element::Keyword arm of CommonHtmlHandler::start
keyword_attributes(attributes, keyword) ==
    LET captioned ==
            IF to_lowercase(keyword.key) = "caption"
            THEN ("alt" :> keyword.value) @@ ("title" :> keyword.value)
                 @@ attributes
            ELSE attributes
        v == trim_colons(keyword.value)
    IN  IF to_lowercase(keyword.key) = "attr_html" /\ Len(v) >= 2
        THEN (v[1] :> Tail(v)) @@ captioned
        ELSE captioned

ImageExtensions == {".jpg", ".jpeg", ".png", ".gif", ".webp"}

\* CommonHtmlHandler::start; st is [in_page_title, footnote_id, attributes,
\* out, n], out what was written and n the number of events consumed
common_start(st, element) ==
    CASE element.el = "FnRef" ->
           LET l == fnref_label(st.footnote_id, element.label)
           IN  [st EXCEPT !.footnote_id = l.footnote_id,
                          !.out = Append(@, Out("fnref", "Start", 0, l.label,
                                                NoAttributes, element))]
      [] element.el \in {"Paragraph", "Section"} ->
           [st EXCEPT !.out = Append(@, Out(element.el, "Start", 0, "",
                                            st.attributes, element))]
      [] element.el = "Title" ->
           [st EXCEPT !.out =
               Append(@, Out("h", "Start",
                             IF element.level <= 6 THEN element.level ELSE 6,
                             "", st.attributes, element))]
      [] element.el = "Link" ->
           [st EXCEPT !.out =
               Append(@, Out(IF element.path[Len(element.path)]
                                    \in ImageExtensions
                             THEN "img" ELSE "a",
                             "Start", 0, "", st.attributes, element))]
      [] element.el = "Keyword" ->
           [st EXCEPT !.attributes = keyword_attributes(@, element)]
      [] OTHER -> st

\* mutant of common_end: the attributes outlive the end of an inline element
common_end_keeps_inline(st, element) ==
    IF element.el \in {"Keyword", "Text", "Link", "FnRef"} THEN st
    ELSE [st EXCEPT !.attributes = NoAttributes]

\* CommonHtmlHandler::end
common_end(st, element) ==
    IF element.el = "Keyword" THEN st
    ELSE [st EXCEPT !.attributes = NoAttributes]

\* PostHtmlHandler::start
post_start(st, element, level) ==
    IF element.el = "Title" /\ element.level = level
    THEN [st EXCEPT !.in_page_title = TRUE]
    ELSE IF element.el = "Title"
    THEN [st EXCEPT !.out = Append(@, Out("h", "Start",
                                          element.level - level + 1, "",
                                          st.attributes, element))]
    ELSE IF ~ st.in_page_title THEN common_start(st, element)
    ELSE st

\* PostHtmlHandler::end
post_end(st, element, level) ==
    IF element.el = "Title" /\ element.level = level
    THEN [st EXCEPT !.in_page_title = FALSE]
    ELSE IF element.el = "Title"
    THEN [st EXCEPT !.out = Append(@, Out("h", "End",
                                          element.level - level + 1, "",
                                          NoAttributes, element))]
    ELSE IF ~ st.in_page_title THEN common_end(st, element)
    ELSE st

\* the loop of write_html over the events, st.n of which are consumed
RECURSIVE post_events(_, _, _)
post_events(st, events, level) ==
    IF st.n = Len(events) THEN st
    ELSE LET ev == events[st.n + 1]
             seen == [st EXCEPT !.n = @ + 1]
         IN  post_events(IF ev.edge = "Start"
                         THEN post_start(seen, ev.element, level)
                         ELSE post_end(seen, ev.element, level),
                         events, level)

\* write_html(headline, org, PostHtmlHandler { level: headline.level(),
\* footnote_id: 0, attributes: Default::default(), in_page_title: false })
write_html_post(headline, level) ==
    post_events([in_page_title |-> FALSE, footnote_id |-> 0,
                 attributes |-> NoAttributes, out |-> <<>>, n |-> 0],
                post_traverse(headline, level), level).out

Footnote(label, definition) == [label |-> label, definition |-> definition]

\* one turn of the loop of get_footnotes; st is [footnotes, footnote_id,
\* in_footnote, n], in_footnote an Option of (label, text)
footnote_event(st, ev) ==
    LET element == ev.element
    IN  IF ev.edge = "Start"
        THEN IF element.el = "FnDef"
             THEN [st EXCEPT !.in_footnote = <<Footnote(element.label, <<>>)>>]
             ELSE IF element.el = "FnRef" /\ element.definition # <<>>
             THEN IF element.label = ""
                  THEN [st EXCEPT !.footnote_id = @ + 1,
                                  !.footnotes =
                                      Append(@, Footnote(ToString(st.footnote_id + 1),
                                                         element.definition[1]))]
                  ELSE [st EXCEPT !.footnotes =
                                      Append(@, Footnote(element.label,
                                                         element.definition[1]))]
             ELSE IF element.el = "Text" /\ st.in_footnote # <<>>
             THEN [st EXCEPT !.in_footnote[1].definition = Append(@, "text")]
             ELSE st
        ELSE IF element.el = "FnDef" /\ st.in_footnote # <<>>
             THEN [st EXCEPT !.footnotes = Append(@, st.in_footnote[1]),
                             !.in_footnote = <<>>]
             ELSE st

\* for event in it, st.n events of which are consumed
RECURSIVE footnote_events(_, _)
footnote_events(st, events) ==
    IF st.n = Len(events) THEN st
    ELSE footnote_events(footnote_event([st EXCEPT !.n = @ + 1],
                                        events[st.n + 1]), events)

get_footnotes(headline, level) ==
    footnote_events([footnotes |-> <<>>, footnote_id |-> 0,
                     in_footnote |-> <<>>, n |-> 0],
                    post_traverse(headline, level)).footnotes

\* get_post_context: the footnotes and the content it inserts
ExportPost ==
    /\ pc = "call"
    /\ ret' = [footnotes |-> get_footnotes(args, 1 + args.skip),
               content |-> write_html_post(args, 1 + args.skip)]
    /\ pc' = "returned"
    /\ UNCHANGED <<doc, release, tree, fs, returned, renderer, result,
                   watch, preamble, vfs, args>>

NextPost == ExportPost

\* posts whose headings differ in level
LevelHeadingPool ==
    {PostHeading(<<TextEl>>, s, k) :
        s \in {<<>>, <<Block(El("Paragraph"), <<TextEl>>)>>},
        k \in {0, 2, 5}}

InitPostLevels ==
    /\ NoRun
    /\ pc = "call"
    /\ args \in Docs(LevelHeadingPool)
    /\ ret = <<>>

SpecPostLevels == InitPostLevels /\ [][NextPost]_vars

\* posts whose headings differ in the footnote references of their title and
\* section; a reference with an empty label is an inline footnote and has a
\* definition
FootnoteHeadingPool ==
    {PostHeading(t, s, 0) :
        t \in {<<TextEl>>, <<TextEl, FnRefEl("", <<"t">>)>>},
        s \in {<<>>,
               <<Block(El("Paragraph"), <<TextEl, FnRefEl("", <<"b">>)>>)>>,
               <<Block(El("Paragraph"),
                       <<FnRefEl("a", <<"c">>), FnRefEl("", <<"d">>)>>)>>,
               <<Block(El("Paragraph"), <<FnRefEl("e", <<>>)>>),
                 Block(FnDefEl("e"), <<TextEl>>)>>}}

InitPostFootnotes ==
    /\ NoRun
    /\ pc = "call"
    /\ args \in Docs(FootnoteHeadingPool)
    /\ ret = <<>>

SpecPostFootnotes == InitPostFootnotes /\ [][NextPost]_vars

\* posts whose headings differ in the keywords and the paragraphs of their
\* section
AttributeHeadingPool ==
    {PostHeading(<<TextEl>>, s, 0) :
        s \in {<<>>,
               <<Block(El("Paragraph"), <<LinkEl(<<"a", ".png">>)>>)>>,
               <<Block(KeywordEl("CAPTION", <<"c">>), <<>>),
                 Block(El("Paragraph"), <<LinkEl(<<"a", ".png">>)>>)>>,
               <<Block(KeywordEl("CAPTION", <<"c">>), <<>>),
                 Block(El("Paragraph"), <<TextEl, LinkEl(<<"a", ".png">>)>>)>>,
               <<Block(KeywordEl("ATTR_HTML", <<":", "width", "100">>), <<>>),
                 Block(El("Paragraph"), <<LinkEl(<<"b", ".html">>)>>),
                 Block(El("Paragraph"), <<LinkEl(<<"a", ".png">>)>>)>>}}

InitPostAttributes ==
    /\ NoRun
    /\ pc = "call"
    /\ args \in Docs(AttributeHeadingPool)
    /\ ret = <<>>

SpecPostAttributes == InitPostAttributes /\ [][NextPost]_vars

----------------------------------------------------------------------------
(* context.rs: the word count of get_org_file_context *)

MaxFileHeadings == 2

\* a node of an Org's arena: its element, the words of a Text, and the number
\* of nodes of its subtree; the subtree of the node at index i is laid out at
\* i .. i + size - 1
Node(el, words, size) == [el |-> el, words |-> words, size |-> size]

\* the nodes of a top-level heading with the words of its title and section
heading_nodes(h) ==
    <<Node("Headline", 0, IF h.section > 0 THEN 6 ELSE 3),
      Node("Title", 0, 2), Node("Text", h.title, 1)>>
    \o (IF h.section > 0
        THEN <<Node("Section", 0, 3), Node("Paragraph", 0, 2),
               Node("Text", h.section, 1)>>
        ELSE <<>>)

RECURSIVE headings_nodes(_)
headings_nodes(hs) ==
    IF hs = <<>> THEN <<>>
    ELSE heading_nodes(hs[1]) \o headings_nodes(Tail(hs))

\* Org::parse(&src).arena() of a file with or without keywords before its
\* first heading
arena(file) ==
    LET below == (IF file.preamble
                  THEN <<Node("Section", 0, 2), Node("Keyword", 0, 1)>>
                  ELSE <<>>) \o headings_nodes(file.headings)
    IN  <<Node("Document", 0, 1 + Len(below))>> \o below

\* doc.first_child(&new_org): the node id of the first heading, an Option
first_child(org) ==
    LET headlines == {i \in 1..Len(org) : org[i].el = "Headline"}
    IN  IF headlines = {} THEN <<>>
        ELSE <<CHOOSE i \in headlines : \A j \in headlines : i <= j>>

RECURSIVE sum_words(_, _, _)
sum_words(org, from, to) ==
    IF from > to THEN 0
    ELSE org[from].words + sum_words(org, from + 1, to)

\* count_words_post: the words of the Text nodes of the subtree that the
\* arena of org has at the node id; an Option, none when indexing the arena
\* panics
count_words_post(node, org) ==
    IF node > Len(org) THEN <<>>
    ELSE <<sum_words(org, node, node + org[node].size - 1)>>

\* get_org_file_context: let first = doc.first_child(&new_org).unwrap();
\* let word_count = count_words_post(&first, org)
org_file_word_count(org, new_org) ==
    LET first == first_child(new_org)
        word_count == count_words_post(first[1], org)
    IN  IF first = <<>> \/ word_count = <<>>
        THEN [ok |-> FALSE, word_count |-> 0]
        ELSE [ok |-> TRUE, word_count |-> word_count[1]]

\* org files: keywords or none before the headings, and the words of the
\* title and the section of each heading
OrgFiles ==
    {[preamble |-> p, headings |-> hs] :
        p \in BOOLEAN,
        hs \in UNION {[1..n -> [title : {1, 2}, section : {0, 3}]] :
                         n \in 0..MaxFileHeadings}}

InitOrgFile ==
    /\ NoRun
    /\ pc = "call"
    /\ args \in [org : OrgFiles, new_org : OrgFiles]
    /\ ret = <<>>

CountWordsOrgFile ==
    /\ pc = "call"
    /\ ret' = org_file_word_count(arena(args.org), arena(args.new_org))
    /\ pc' = "returned"
    /\ UNCHANGED <<doc, release, tree, fs, returned, renderer, result,
                   watch, preamble, vfs, args>>

NextOrgFile == CountWordsOrgFile

SpecOrgFile == InitOrgFile /\ [][NextOrgFile]_vars

----------------------------------------------------------------------------
(* C1: headings tagged noexport *)

\* C1 as stated: no heading tagged noexport, the root heading included, has a
\* Page in the tree parse_index returns.
C1_NoexportNeverAPage ==
    pc = "built" =>
        \A pos \in Positions :
            "noexport" \in HeadingAt(doc, pos).tags => ~ HasPage(pos)

\* C1 amended: no heading other than the root that is tagged noexport has a
\* Page in the tree parse_index returns, at any depth (the root heading always
\* becomes the root Page, whatever its tags).
C1_NoexportChildNeverAPage ==
    pc = "built" =>
        /\ tree.headline = <<>>
        /\ \A pos \in Positions \ {<<>>} :
              "noexport" \in HeadingAt(doc, pos).tags => ~ HasPage(pos)

\* a grandchild tagged noexport is left out while its parent and a sibling
\* of it are pages
C1_Witness ==
    /\ pc = "built"
    /\ \E pos \in Positions :
          /\ Len(pos) = 2
          /\ "noexport" \in HeadingAt(doc, pos).tags
          /\ HasPage(Parent(pos))
          /\ ~ HasPage(pos)

----------------------------------------------------------------------------
(* C2: headings with a not-done workflow keyword *)

\* C2 as stated: a child of an index Page whose keyword is not-done has no
\* Page in a release build, post or index; in a non-release build it has a
\* Page exactly when the keyword is PROGRESS and it is not tagged noexport.
C2_NotDoneExcluded ==
    pc = "built" =>
        \A pos \in Positions \ {<<>>} :
            LET c == HeadingAt(doc, pos)
                siblings == HeadingAt(doc, Parent(pos)).children
            IN  (/\ c.keyword \in NotDone
                 /\ \E p \in Pages : p.headline = Parent(pos) /\ IsIndex(p)
                 \* no sibling can take its place in the children map
                 /\ \A i \in 1..Len(siblings) :
                       i # pos[Len(pos)] => SlugAt(Append(Parent(pos), i)) # SlugAt(pos))
                => IF release THEN ~ HasPage(pos)
                   ELSE HasPage(pos)
                        <=> (c.keyword = "PROGRESS" /\ "noexport" \notin c.tags)

----------------------------------------------------------------------------
(* C3: the path of an index Page *)

RECURSIVE JoinSlash(_)
JoinSlash(slugs) ==
    IF slugs = <<>> THEN ""
    ELSE IF Len(slugs) = 1 THEN slugs[1]
    ELSE slugs[1] \o "/" \o JoinSlash(Tail(slugs))

\* the slugs of the headings from the root down to pos
ChainSlugs(pos) == [k \in 1..(Len(pos) + 1) |-> SlugAt(SubSeq(pos, 1, k - 1))]

NotIndexSlug(s) == s # "index"

ExpectedIndexPath(pos) == "/" \o JoinSlash(SelectSeq(ChainSlugs(pos), NotIndexSlug))

\* C3: the path of every index Page is "/" followed by the "/"-joined slugs
\* of the headings from the root to it, the slugs equal to "index" left out;
\* a Page with slug "index" has its parent's path, and the root's is "/" when
\* its slug is "index".
C3_IndexPath ==
    pc = "built" =>
        \A p \in Pages :
            IsIndex(p) =>
                /\ p.path = ExpectedIndexPath(p.headline)
                /\ (p.slug = "index" /\ p.headline # <<>>) =>
                      \E q \in Pages : q.headline = Parent(p.headline)
                                       /\ q.path = p.path
                /\ (p.slug = "index" /\ p.headline = <<>>) => p.path = "/"

\* an index grandchild below a child with slug "index", and an index Page
\* with slug "index" below a parent whose path is not "/"
C3_Witness ==
    /\ pc = "built"
    /\ \E p, q \in Pages :
          /\ IsIndex(p) /\ IsIndex(q)
          /\ Len(p.headline) = 2
          /\ q.headline = Parent(p.headline)
          /\ \/ q.slug = "index" /\ p.slug # "index" /\ tree.slug = "index"
             \/ p.slug = "index" /\ q.slug # "index"

----------------------------------------------------------------------------
(* C4: children with the same slug *)

\* the surviving children of the heading at pos that have slug s
SurvivorsWithSlug(pos, s) ==
    {i \in 1..Len(HeadingAt(doc, pos).children) :
        Survives(Append(pos, i)) /\ SlugAt(Append(pos, i)) = s}

Max(S) == CHOOSE x \in S : \A y \in S : y <= x

\* C4: the children map of every index Page holds, under each slug of a
\* surviving child, the Page of the last surviving child with that slug in
\* document order, and no other key; parse_index returns a Page (no error).
C4_LastSlugWins ==
    pc = "built" =>
        /\ tree # NoPage
        /\ \A p \in Pages :
              IsIndex(p) =>
                 LET n == Len(HeadingAt(doc, p.headline).children)
                     slugs == {SlugAt(Append(p.headline, i)) :
                                 i \in {j \in 1..n : Survives(Append(p.headline, j))}}
                 IN  /\ DOMAIN p.page.children = slugs
                     /\ \A s \in slugs :
                           p.page.children[s].headline =
                               Append(p.headline, Max(SurvivorsWithSlug(p.headline, s)))

\* two surviving children of one index have the same slug
C4_Witness ==
    /\ pc = "built"
    /\ \E p \in Pages :
          /\ IsIndex(p)
          /\ \E s \in DOMAIN p.page.children :
                Cardinality(SurvivorsWithSlug(p.headline, s)) >= 2

----------------------------------------------------------------------------
(* C5: the order of a child Page *)

\* the number of surviving children of the heading at pos before its i-th
SurvivorsBefore(pos, i) ==
    Cardinality({j \in 1..(i - 1) : Survives(Append(pos, j))})

\* C5 as stated: the order of a child Page is its zero-based position among
\* the surviving children of its parent in document order.
C5_OrderAmongSurvivors ==
    pc = "built" =>
        \A p \in Pages : \A c \in ChildPages(p) :
            c.order = SurvivorsBefore(p.headline, c.headline[Len(c.headline)])

\* C5 amended: the order of a child Page is its zero-based position among
\* all the children of its parent heading in document order, the excluded
\* ones counted too; the root's order is 0.
C5_OrderAmongAllChildren ==
    pc = "built" =>
        /\ tree.order = 0
        /\ \A p \in Pages : \A c \in ChildPages(p) :
              /\ Parent(c.headline) = p.headline
              /\ c.order = c.headline[Len(c.headline)] - 1

\* a child Page that follows an excluded sibling: its order is 1, although
\* it is the first surviving child
C5_Witness ==
    /\ pc = "built"
    /\ \E p \in Pages : \E c \in ChildPages(p) :
          /\ c.headline[Len(c.headline)] = 2
          /\ ~ Survives(Append(p.headline, 1))
          /\ c.order = 1

----------------------------------------------------------------------------
(* C6: post or index *)

\* C6: a child Page is a leaf (Post or OrgFile) exactly when its heading is
\* tagged post or the heading of its direct parent is tagged posts; otherwise
\* it is an Index, with an empty children map when the heading has no
\* children.  A posts tag further up does not matter.
C6_PostOrIndex ==
    pc = "built" =>
        \A p \in Pages :
            p.headline # <<>> =>
                LET c == HeadingAt(doc, p.headline)
                    parent == HeadingAt(doc, Parent(p.headline))
                IN  /\ p.page.kind \in {"Post", "OrgFile", "Index"}
                    /\ p.page.kind \in {"Post", "OrgFile"}
                          <=> ("post" \in c.tags \/ "posts" \in parent.tags)
                    /\ (IsIndex(p) /\ c.children = <<>>)
                          => DOMAIN p.page.children = {}

\* a grandchild that is a Post only because its parent is tagged posts; the
\* parent, a child without the post tag, is an Index
C6_Witness ==
    /\ pc = "built"
    /\ \E p, q \in Pages :
          /\ Len(p.headline) = 2
          /\ p.page.kind = "Post"
          /\ "post" \notin HeadingAt(doc, p.headline).tags
          /\ q.headline = Parent(p.headline)
          /\ IsIndex(q)
          /\ "posts" \in HeadingAt(doc, q.headline).tags

----------------------------------------------------------------------------
(* C9: paths are unique *)

\* C9 as stated: no two distinct Pages of a built tree have the same path.
C9_PathsUnique ==
    pc = "built" =>
        \A p, q \in Pages : p.path = q.path => p = q

----------------------------------------------------------------------------
(* C7: linked files *)

\* the text is a link whose path starts with "file:"
IsFileLink(text) ==
    /\ ~ text.empty
    /\ ~ text.lead
    /\ text.link # <<>>
    /\ text.link[1] = "file:"

\* the values of the properties named exactly `file` of the heading at pos
FileValues(pos) ==
    LET c == HeadingAt(doc, pos)
    IN  [i \in 1..Len(SelectSeq(c.props, LAMBDA kv : kv[1] = "file")) |->
            SelectSeq(c.props, LAMBDA kv : kv[1] = "file")[i][2]]

\* C7: a leaf Page is an OrgFile exactly when its heading has a `file`
\* property whose value is a link with a "file:" path, and its path is then
\* the link's path without "file:"; with any other value (plain text, a link
\* without "file:", text before the link, the empty text) or without the
\* property it is a Post.  A surviving post heading always has its Page.
C7_FileLink ==
    pc = "built" =>
        /\ \A p \in Pages :
              ~ IsIndex(p) =>
                 LET v == FileValues(p.headline)
                 IN  /\ p.page.kind \in {"Post", "OrgFile"}
                     /\ p.page.kind = "OrgFile" <=> (v # <<>> /\ IsFileLink(v[1]))
                     /\ p.page.kind = "OrgFile" =>
                           p.page.path = Concat(Tail(v[1].link))
        /\ \A pos \in Positions \ {<<>>} :
              LET n == Len(HeadingAt(doc, Parent(pos)).children)
              IN  (/\ Survives(pos)
                   /\ \E q \in Pages : q.headline = Parent(pos) /\ IsIndex(q)
                   /\ \A i \in 1..n : i > pos[Len(pos)] =>
                         ~ (Survives(Append(Parent(pos), i))
                            /\ SlugAt(Append(Parent(pos), i)) = SlugAt(pos)))
                  => HasPage(pos)

\* [[file:test.org][linked blogpost]] gives an OrgFile with path test.org,
\* and a post whose `file` value is a link without "file:" is a Post
C7_Witness ==
    /\ pc = "built"
    /\ \E p, q \in Pages :
          /\ p.page.kind = "OrgFile"
          /\ p.page.path = "test.org"
          /\ q.page.kind = "Post"
          /\ FileValues(q.headline) # <<>>
          /\ FileValues(q.headline)[1].link # <<>>
          /\ ~ IsFileLink(FileValues(q.headline)[1])

----------------------------------------------------------------------------
(* C10: no partial success in rendering *)

IsProperPrefix(a, pos) == Len(a) < Len(pos) /\ SubSeq(pos, 1, Len(a)) = a

\* C10: when the render of a Page fails, Page::render of every ancestor
\* index, up to the root, returns an error too, and no ancestor writes its
\* rss.xml.
C10_NoPartialSuccess ==
    pc = "rendered" =>
        \A c \in returned :
            c[2] = "Err" =>
                \A a \in {p.headline : p \in Pages} :
                    IsProperPrefix(a, c[1]) =>
                        /\ <<a, "Err">> \in returned
                        /\ ~ \E w \in Range(fs) : w.by = a /\ w.name = "rss.xml"

\* Page::render of render.rs alone has the property
C10_RenderRsPropagates ==
    renderer = "render.rs" => C10_NoPartialSuccess

----------------------------------------------------------------------------
(* C11: the output files of distinct Pages *)

\* C11: in a render by Page::render of render.rs, no output file is written
\* by two different Pages: two writes to the same path, index.html or
\* rss.xml, are writes by the same Page.
C11_DisjointOutputs ==
    (pc = "rendered" /\ renderer = "render.rs") =>
        \A i, j \in 1..Len(fs) :
            fs[i].file = fs[j].file => fs[i].by = fs[j].by

----------------------------------------------------------------------------
(* C14, C15: the feed of an index *)

\* the output directory of the Page of the heading at pos: the build
\* directory followed by the slugs from the root to it that are not "index"
OutDirOf(pos) ==
    LET chain == SelectSeq(ChainSlugs(pos), NotIndexSlug)
    IN  IF chain = <<>> THEN BuildPath ELSE BuildPath \o "/" \o JoinSlash(chain)

\* the feed item of a child Page
ItemOf(c) == [title |-> c.title, link |-> c.path]

\* C14: after a successful render by render.rs, the output directory of every
\* index Page, with or without children, holds an rss.xml whose items are
\* exactly one per direct child Page of that index, and no Page that is not
\* an index writes an rss.xml.
C14_FeedPerIndex ==
    (pc = "rendered" /\ renderer = "render.rs" /\ result = "Ok") =>
        \A p \in Pages :
            LET f == OutDirOf(p.headline) \o "/rss.xml"
            IN  IF IsIndex(p)
                THEN /\ f \in DOMAIN Disk
                     /\ Range(Disk[f].items) = {ItemOf(c) : c \in ChildPages(p)}
                     /\ Len(Disk[f].items) = Cardinality(ChildPages(p))
                ELSE \A i \in 1..Len(fs) :
                        fs[i].by = p.headline => fs[i].name # "rss.xml"

\* C15: the items of every feed written by render.rs are in ascending order
\* of the `order` of the child Pages they are for.
C15_FeedInOrder ==
    (pc = "rendered" /\ renderer = "render.rs") =>
        \A i \in 1..Len(fs) :
            fs[i].name = "rss.xml" =>
                \A p \in Pages :
                    p.headline = fs[i].by =>
                        \A k, l \in 1..Len(fs[i].items) :
                            \A c, d \in ChildPages(p) :
                                (/\ k < l
                                 /\ ItemOf(c) = fs[i].items[k]
                                 /\ ItemOf(d) = fs[i].items[l])
                                => c.order < d.order

----------------------------------------------------------------------------
(* C12: the template of a page *)

HasTemplateProperty ==
    \E i \in 1..Len(args.properties) : args.properties[i][1] = "template"

TemplateProperty ==
    args.properties[CHOOSE i \in 1..Len(args.properties) :
                        args.properties[i][1] = "template"][2]

\* the page path without its leading "/", "index" for the path "/"
PathName ==
    IF args.path = "/" THEN "index"
    ELSE CHOOSE t \in PathTails : "/" \o t = args.path

----------------------------------------------------------------------------
(* C13: computed keys and properties of the same name *)

\* the keys each builder computes
ComputedKeys ==
    IF args.kind = "Post"
    THEN {"title", "date", "word_count", "reading_time", "footnotes", "content",
          "sections"}
    ELSE IF args.kind = "Index"
    THEN {"title", "content", "pages", "word_count", "reading_time"}
    ELSE {"title", "content", "sections", "word_count", "reading_time"}

PropertyNamed(key) ==
    {i \in 1..Len(args.properties) : args.properties[i][1] = key}

\* C13 as stated: in the context built for a page, every reserved key the
\* builder computes holds the computed value, also when the heading has a
\* property of the same name.
C13_ComputedOverrides ==
    (pc = "returned" /\ ret.ok) =>
        \A key \in ComputedKeys : ret.context[key] = Computed(key)

\* C13 amended: the properties of the heading are inserted after the computed
\* keys, so every property is in the context under its own name with the
\* value of the last property of that name, and a computed key holds the
\* computed value exactly when the heading has no property of that name; the
\* context has no other key.
C13_PropertiesOverride ==
    (pc = "returned" /\ ret.ok) =>
        /\ DOMAIN ret.context =
              ComputedKeys \cup {args.properties[i][1] : i \in 1..Len(args.properties)}
        /\ \A key \in DOMAIN ret.context :
              IF PropertyNamed(key) = {} THEN ret.context[key] = Computed(key)
              ELSE ret.context[key] =
                      Property(args.properties[Max(PropertyNamed(key))][2])

\* a heading with a property named title and one named slug: the context
\* holds the property's title, and the other computed keys
C13_Witness ==
    /\ pc = "returned"
    /\ ret.ok
    /\ PropertyNamed("title") # {}
    /\ PropertyNamed("slug") # {}
    /\ ret.context["title"].src = "property"
    /\ ret.context["content"] = Computed("content")

----------------------------------------------------------------------------
(* C16: the word count of an index *)

\* C16: count_words_index of an index heading is the number of words of the
\* heading's own title and own section: no word of a descendant heading, of
\* its title or of its section, is counted.
C16_OwnWordsOnly ==
    pc = "returned" => ret = args.title + args.section

\* what the loop counts: the own title and section, and the title of every
\* child heading that is exactly one level below
RECURSIVE ChildTitleWords(_)
ChildTitleWords(hs) ==
    IF hs = <<>> THEN 0
    ELSE (IF hs[1].skip = 0 THEN hs[1].title ELSE 0) + ChildTitleWords(Tail(hs))

C16_CountsChildTitles ==
    pc = "returned" =>
        ret = args.title + args.section + ChildTitleWords(args.children)

----------------------------------------------------------------------------
(* C17: the arguments of a macro call *)

\* the argument text of the call, empty when the call has none
CallText == IF args.arguments = <<>> THEN <<>> ELSE args.arguments[1]

Commas(text) == {i \in 1..Len(text) : text[i] = ","}

\* the number of arguments a call supplies: none without argument text, else
\* one more than the commas of the text
Supplied == IF CallText = <<>> THEN 0 ELSE Cardinality(Commas(CallText)) + 1

\* the k-th comma-separated piece of the text, trimmed
Piece(text, k) ==
    LET cuts == Commas(text) \cup {0, Len(text) + 1}
        from == CHOOSE i \in cuts : Cardinality({j \in cuts : j < i}) = k - 1
        to == CHOOSE i \in cuts : Cardinality({j \in cuts : j < i}) = k
        raw == SubSeq(text, from + 1, to - 1)
        inner == {i \in 1..Len(raw) : raw[i] # " "}
    IN  IF inner = {} THEN <<>>
        ELSE SubSeq(raw, CHOOSE i \in inner : \A j \in inner : i <= j, Max(inner))

\* C17: a call of a macro declared with n parameters is an error whenever
\* the number of arguments it supplies differs from n, a call without
\* argument text supplying none; when the number is n it succeeds with the
\* i-th parameter bound to the trimmed i-th comma-separated argument.
C17_ArgumentCount ==
    (pc = "returned" /\ args.name = args.definition.label) =>
        LET n == Len(args.definition.arguments)
        IN  /\ ret.ok <=> Supplied = n
            /\ ret.ok =>
                  \A i \in 1..n :
                      ret.context[args.definition.arguments[i]] = Piece(CallText, i)

\* the same for the calls that have an argument text
C17_ArgumentCountOfText ==
    CallText # <<>> => C17_ArgumentCount

----------------------------------------------------------------------------
(* C18, C19: generate_folders *)

\* the directory of the Page of the heading at pos: the slugs from the root
\* heading to it that are not "index"
DirOf(pos) == SelectSeq(ChainSlugs(pos), NotIndexSlug)

\* C18: after generate_folders ran, the directories are those that were
\* there before and one for every Page of the built tree, at the path of the
\* slugs of its ancestors and its own, the slugs equal to "index" left out;
\* no directory named index is created, and none for a heading that has no
\* Page.
C18_FolderPerPage ==
    ret >= 1 =>
        /\ vfs.dirs = args.vfs.dirs \cup {DirOf(p.headline) : p \in Pages}
        /\ \A d \in vfs.dirs \ args.vfs.dirs :
              \A i \in 1..Len(d) : d[i] # "index"

\* below a root heading titled Index, a child Page got its directory directly
\* under the root and a sibling that is left out of the tree got none
C18_Witness ==
    /\ ret >= 1
    /\ args.vfs.dirs = {<<>>}
    /\ tree.slug = "index"
    /\ \E p \in Pages :
          /\ Len(p.headline) = 1
          /\ DirOf(p.headline) = <<p.slug>>
          /\ <<p.slug>> \in vfs.dirs
    /\ \E pos \in Positions : ~ HasPage(pos) /\ <<SlugAt(pos)>> \notin vfs.dirs

PageDirs == {DirOf(p.headline) : p \in Pages}

\* C19: with generate_gitignore, after a run every .gitignore that existed
\* keeps its content and every page directory holds a .gitignore, an empty
\* one where there was none; without it the files are those that were there
\* before; and a second run changes nothing.
C19_Gitignore ==
    /\ [](ret >= 1 =>
            /\ \A f \in DOMAIN args.vfs.files :
                  f \in DOMAIN vfs.files /\ vfs.files[f] = args.vfs.files[f]
            /\ args.generate_gitignore =>
                  \A d \in PageDirs :
                      /\ Append(d, ".gitignore") \in DOMAIN vfs.files
                      /\ Append(d, ".gitignore") \notin DOMAIN args.vfs.files
                            => vfs.files[Append(d, ".gitignore")] = ""
            /\ ~ args.generate_gitignore => vfs.files = args.vfs.files)
    /\ [][ret >= 1 => vfs' = vfs]_vars

\* after the second run with generate_gitignore: a page directory whose
\* .gitignore was there before, and one that got an empty one
C19_Witness ==
    /\ ret = 2
    /\ args.generate_gitignore
    /\ \E d, g \in PageDirs :
          /\ Append(d, ".gitignore") \in DOMAIN args.vfs.files
          /\ vfs.files[Append(d, ".gitignore")] = "hiii :3"
          /\ Append(g, ".gitignore") \notin DOMAIN args.vfs.files
          /\ vfs.files[Append(g, ".gitignore")] = ""

----------------------------------------------------------------------------
(* C20: missing site keywords *)

\* nothing of the site was touched: the build directory is as it was, no
\* tree was built and no Page was rendered or written
Untouched ==
    /\ vfs = args.vfs
    /\ tree = NoPage
    /\ fs = <<>>
    /\ returned = {}

\* C20 as stated: when title, description or url is absent the build fails
\* with an error naming a missing keyword (the title, when only the title is
\* missing), before the build directory is removed and before any Page is
\* rendered or written.
C20_MissingKeywordFails ==
    (preamble # RequiredKeywords /\ pc # "start") =>
        /\ pc = "failed"
        /\ result = "Err"
        /\ ret.error \in {not_provided(k) : k \in RequiredKeywords \ preamble}
        /\ RequiredKeywords \ preamble = {"title"}
              => ret.error = "Keyword 'title' was not provided"
        /\ Untouched

\* the keywords the build cannot do without: url only in a release build
Missing ==
    (RequiredKeywords \ preamble) \ (IF release THEN {} ELSE {"url"})

\* C20 amended: the build fails in this way when title or description is
\* absent, or url in a release build; a build that is not a release build
\* uses http://localhost:1024 for an absent url and goes on.
C20_RequiredKeywordFails ==
    pc # "start" =>
        IF Missing # {}
        THEN /\ pc = "failed"
             /\ result = "Err"
             /\ ret.error \in {not_provided(k) : k \in Missing}
             /\ Missing = {"title"} => ret.error = "Keyword 'title' was not provided"
             /\ Untouched
        ELSE pc # "failed" /\ ret.error = None

\* a release build without title fails while the old build directory is
\* still there
C20_Witness ==
    /\ pc = "failed"
    /\ release
    /\ preamble = {"description", "url"}
    /\ ret.error = "Keyword 'title' was not provided"
    /\ <<"build", "index.html">> \in DOMAIN vfs.files

----------------------------------------------------------------------------
(* C21, C29: the reload notification; C27: errors of a build cycle *)

\* C21: every connection that is open when a rebuild succeeds is eventually
\* sent "reload", however many connections are open.
C21_EveryClientReloads ==
    \A c \in Clients :
        (watch.clients[c].state = "waiting" /\ watch.clients[c].owed)
            ~> (watch.clients[c].state = "reloaded")

\* C29: a connection is sent "reload" only for a rebuild that completed
\* after the connection was accepted.
C29_NoStaleReload ==
    \A c \in Clients :
        watch.clients[c].state = "reloaded" =>
            watch.clients[c].got > watch.clients[c].accepted_at

\* C27: a build cycle always ends in success or failure; whatever went wrong
\* in it, the export of a page's content included, the watcher's thread is
\* not terminated and goes on handling change events.
C27_CycleReturns ==
    watch.watcher = "running" /\ watch.last \in {"none", "Ok", "Err"}

----------------------------------------------------------------------------
(* C22: slugs are URL-safe *)

\* the characters of the slugs that occur
Chars(s) ==
    CASE s = "index" -> <<"i", "n", "d", "e", "x">>
      [] s = "a" -> <<"a">>
      [] s = "b" -> <<"b">>
      [] s = "my-post" -> <<"m", "y", "-", "p", "o", "s", "t">>
      [] s = "first-child" ->
            <<"f", "i", "r", "s", "t", "-", "c", "h", "i", "l", "d">>
      [] s = "My Post" -> <<"M", "y", " ", "p", "o", "s", "t">>

LowercaseAlphanumerics ==
    {"a", "b", "c", "d", "e", "f", "g", "h", "i", "j", "k", "l", "m", "n", "o",
     "p", "q", "r", "s", "t", "u", "v", "w", "x", "y", "z",
     "0", "1", "2", "3", "4", "5", "6", "7", "8", "9"}

UrlSafe(s) ==
    \A i \in 1..Len(Chars(s)) : Chars(s)[i] \in LowercaseAlphanumerics \cup {"-"}

\* C22: the slug of every Page of a built tree has only lowercase
\* alphanumerics and hyphens, whether it comes from the title or from the
\* `slug` property.
C22_SlugUrlSafe ==
    pc = "built" => \A p \in Pages : UrlSafe(p.slug)

\* the slugs that come from a title are URL-safe
C22_TitleSlugUrlSafe ==
    pc = "built" =>
        \A p \in Pages :
            get_property(HeadingAt(doc, p.headline), "slug") = None => UrlSafe(p.slug)

----------------------------------------------------------------------------
(* C23: the export of an index page *)

\* the events of the heading tree of the call
CallEvents == traverse(args, 1 + args.skip)

\* the i-th event lies between the Start and the End of a Title
InsideTitle(events, i) ==
    \E a \in 1..(i - 1) :
        /\ events[a].el = "Title" /\ events[a].edge = "Start"
        /\ \A b \in (a + 1)..(i - 1) : events[b].el # "Title"

\* C23: the inner handler of IndexHtmlHandler is called only for elements of
\* the page's own heading, none of a deeper heading, and for no title and no
\* element inside a title.
C23_NoDescendantOutput ==
    pc = "returned" =>
        \A k \in 1..Len(ret.calls) :
            LET i == ret.calls[k]
            IN  /\ CallEvents[i].level = 1 + args.skip
                /\ CallEvents[i].el # "Title"
                /\ ~ InsideTitle(CallEvents, i)

\* an index with a section, whose child has a section and a child of its own:
\* the text of the index's section was handed on
C23_Witness ==
    /\ pc = "returned"
    /\ args.section > 0
    /\ Len(args.children) = 1
    /\ args.children[1].section > 0
    /\ Len(args.children[1].children) = 1
    /\ \E k \in 1..Len(ret.calls) :
          /\ CallEvents[ret.calls[k]].el = "Text"
          /\ CallEvents[ret.calls[k]].words = args.section

----------------------------------------------------------------------------
(* C24: the heading tags of a post *)

\* the level of the page of the call
PageLevel == 1 + args.skip

Min(a, b) == IF a <= b THEN a ELSE b

\* C24: every heading tag written for a sub-heading of a post is <hN> with
\* N in 1..6, N the depth of the heading below the page (the page itself
\* being depth 1) clamped to 6, and the closing tag that follows an opening
\* tag has the same N.
C24_HeadingTagClamped ==
    pc = "returned" =>
        \A i \in 1..Len(ret.content) :
            LET o == ret.content[i]
            IN  o.tag = "h" =>
                    /\ o.n \in 1..6
                    /\ o.n = Min(o.of.level - PageLevel + 1, 6)
                    /\ o.edge = "Start" =>
                          \E j \in (i + 1)..Len(ret.content) :
                              /\ ret.content[j].tag = "h"
                              /\ ret.content[j].edge = "End"
                              /\ ret.content[j].n = o.n
                              /\ \A k \in (i + 1)..(j - 1) :
                                    ret.content[k].tag # "h"

\* the opening and the closing tag of a title agree, and N is the depth of
\* the heading below the page plus one, whatever the depth
C24_HeadingTagOfDepth ==
    pc = "returned" =>
        \A i \in 1..Len(ret.content) :
            LET o == ret.content[i]
            IN  o.tag = "h" =>
                    /\ o.n = o.of.level - PageLevel + 1
                    /\ o.edge = "Start" =>
                          \E j \in (i + 1)..Len(ret.content) :
                              /\ ret.content[j].tag = "h"
                              /\ ret.content[j].edge = "End"
                              /\ ret.content[j].n = o.n
                              /\ \A k \in (i + 1)..(j - 1) :
                                    ret.content[k].tag # "h"

----------------------------------------------------------------------------
(* C25, C28: the footnotes of a post *)

\* the number of references with an empty label written up to the i-th
\* output
EmptyLabelsUpTo(i) ==
    Cardinality({j \in 1..i : /\ ret.content[j].tag = "fnref"
                              /\ ret.content[j].of.label = ""})

\* C25: in the content of one page the k-th written reference with an empty
\* label has the label k, and a reference with a label of its own is written
\* with that label and does not advance the numbering.
C25_FootnoteNumbering ==
    pc = "returned" =>
        \A i \in 1..Len(ret.content) :
            LET o == ret.content[i]
            IN  o.tag = "fnref" =>
                    o.label = IF o.of.label = ""
                              THEN ToString(EmptyLabelsUpTo(i))
                              ELSE o.of.label

\* a reference numbered 1, then a labelled one, then one numbered 2
C25_Witness ==
    /\ pc = "returned"
    /\ \E i, j, k \in 1..Len(ret.content) :
          /\ i < j /\ j < k
          /\ ret.content[i].tag = "fnref" /\ ret.content[i].label = "1"
          /\ ret.content[j].tag = "fnref" /\ ret.content[j].label = "a"
          /\ ret.content[k].tag = "fnref" /\ ret.content[k].label = "2"

\* C28: every inline footnote with an empty label that is written into the
\* content as fn-N is the entry with the label N of the footnotes list.
C28_LabelsAgree ==
    pc = "returned" =>
        \A i \in 1..Len(ret.content) :
            LET o == ret.content[i]
            IN  (o.tag = "fnref" /\ o.of.label = "") =>
                    \E j \in 1..Len(ret.footnotes) :
                        ret.footnotes[j] = Footnote(o.label, o.of.definition[1])

\* the labels of the two passes agree for a page whose own title has no
\* footnote reference
C28_LabelsAgreeWithoutTitleRefs ==
    (pc = "returned" /\ \A i \in 1..Len(args.title) :
                            args.title[i].el # "FnRef") =>
        \A i \in 1..Len(ret.content) :
            LET o == ret.content[i]
            IN  (o.tag = "fnref" /\ o.of.label = "") =>
                    \E j \in 1..Len(ret.footnotes) :
                        ret.footnotes[j] = Footnote(o.label, o.of.definition[1])

----------------------------------------------------------------------------
(* C26: the pending attributes *)

\* the attributes the rendered elements of the blocks are to see: those of
\* the keywords immediately before a block for the block and for every link
\* in it, none for a block with no keyword before it
RECURSIVE PendingOfBlocks(_, _)
PendingOfBlocks(blocks, pending) ==
    IF blocks = <<>> THEN <<>>
    ELSE IF blocks[1].el.el = "Keyword"
    THEN PendingOfBlocks(Tail(blocks), keyword_attributes(pending, blocks[1].el))
    ELSE <<pending>>
         \o [i \in 1..Len(SelectSeq(blocks[1].inline, LAMBDA x : x.el = "Link"))
                |-> pending]
         \o PendingOfBlocks(Tail(blocks), NoAttributes)

RECURSIVE PendingOf(_), PendingOfAll(_)
PendingOf(h) == PendingOfBlocks(h.section, NoAttributes) \o PendingOfAll(h.children)
PendingOfAll(hs) ==
    IF hs = <<>> THEN <<>> ELSE PendingOf(hs[1]) \o PendingOfAll(Tail(hs))

\* the attributes rendered into the paragraphs and the links of the content
RECURSIVE RenderedAttributes(_)
RenderedAttributes(out) ==
    IF out = <<>> THEN <<>>
    ELSE (IF out[1].tag \in {"Paragraph", "img", "a"}
          THEN <<out[1].attributes>> ELSE <<>>)
         \o RenderedAttributes(Tail(out))

\* C26: the attributes of a CAPTION or ATTR_HTML keyword are seen by the
\* block that follows the keyword and by every element rendered inside it,
\* and by no later block.
C26_PendingUntilBlockEnd ==
    pc = "returned" => RenderedAttributes(ret.content) = PendingOf(args)

\* a block with no keyword immediately before it, and the elements inside
\* it, are rendered with no attribute
C26_NoLaterBlockCarries ==
    pc = "returned" =>
        \A i \in 1..Len(PendingOf(args)) :
            DOMAIN PendingOf(args)[i] = {} =>
                DOMAIN RenderedAttributes(ret.content)[i] = {}

----------------------------------------------------------------------------
(* C30: the word count of an external-file page *)

\* C30: when the external document has a heading, word_count is the number
\* of words of its first heading subtree.
C30_WordsOfExternalFile ==
    (pc = "returned" /\ args.new_org.headings # <<>>) =>
        /\ ret.ok
        /\ ret.word_count = args.new_org.headings[1].title
                            + args.new_org.headings[1].section

====
